---- MODULE Spec2Model ----
(***************************************************************************)
(* Server side copy middleware (swift/common/middleware/server_side_copy.py *)
(* and swift/common/copy_helper.py) and data migration middleware          *)
(* (swift/common/middleware/data_migration.py with its drivers), each as a *)
(* state machine: Spec is the copy middleware, DmSpec the data migration   *)
(* middleware in front of a backend with one container, ResolverSpec its   *)
(* driver resolution on its own, and ConcSpec the entry of the copy        *)
(* middleware with several requests in flight on one instance, and         *)
(* FactorySpec the construction of the driver registry from the            *)
(* configuration.                                                          *)
(*                                                                         *)
(* One client request at a time enters ServerSideCopyMiddleware.__call__;  *)
(* the handler runs up to the next synchronous downstream call, the        *)
(* backend answers nondeterministically, and the handler resumes.  A path  *)
(* is the sequence of its '/'-separated segments, a header set is a        *)
(* function from the header names that are present to their values, and a *)
(* path-valued header (X-Copy-From, Destination) is the sequence of its    *)
(* segments as they are written in the header (URL-quoted).                *)
(***************************************************************************)
EXTENDS Integers, Sequences, FiniteSets, TLC

VARIABLES
    object_post_as_copy, \* ServerSideCopyMiddleware.object_post_as_copy
    account_name,        \* ServerSideCopyMiddleware.account_name
    container_name,      \* ServerSideCopyMiddleware.container_name
    object_name,         \* ServerSideCopyMiddleware.object_name
    pc,                  \* where the handler of the current request stands
    client,              \* the request as the client sent it
    req,                 \* the Request object the handlers rewrite in place
    source_path,         \* source path computed by handle_PUT
    source_req,          \* the fetch sub-request built by _get_source_object
    source_resp,         \* the source response after the copy hook
    sink_req,            \* the sink PUT built by CopyHelper.copy
    resp_headers,        \* additional response headers of the copy
    subreqs,             \* downstream calls issued for the current request
    app_resp,            \* WSGIContext._response_status/_response_headers
                         \* as _app_call captured them
    response,            \* what the client receives
    middleware_conf,     \* conf of filter_factory: the filter's configuration
    migration_conf,      \* DataMigration.migration_conf (driver registry)
    container_md,        \* backend: sysmeta of the container
    objects,             \* backend: the objects stored in the container
    dm_pc,               \* where DataMigration.__call__ stands
    dm_client,           \* the request as the client sent it
    dm_req,              \* the request DataMigration forwards (original_env)
    remote_driver,       \* the driver remote_driver_resolver returned
    source_object,       \* what the driver's get_object returned
    create_obj_req,      \* the PUT built by upload_object
    dm_log,              \* steps DataMigration took for the current request
    dm_response,         \* what the client of DataMigration receives
    served,              \* requests DataMigration has taken so far
    threads              \* the requests in flight on one
                         \* ServerSideCopyMiddleware instance, by thread

\* State of the server side copy middleware.
copy_vars == <<object_post_as_copy, account_name, container_name, object_name,
               pc, client, req, source_path, source_req, source_resp,
               sink_req, resp_headers, subreqs, app_resp, response>>

\* State of the data migration middleware and of the backend behind it.
dm_vars == <<middleware_conf, migration_conf, container_md, objects, dm_pc,
             dm_client, dm_req, remote_driver, source_object,
             create_obj_req, dm_log, dm_response, served>>

vars == <<copy_vars, dm_vars, threads>>

-----------------------------------------------------------------------------
(* Bounds and program constants                                            *)

\* Largest Content-Length a client request of the model declares.
MaxBody == 1

\* Largest of the small source object lengths of the model.
MaxSmallLength == 1

\* swift.common.constraints.MAX_FILE_SIZE as configured (max_file_size of
\* swift.conf); the lengths of the model are chosen around it.
MAX_FILE_SIZE == 5

\* Response.content_length of a response without a Content-Length (None).
NoLength == -1

HTTP_CREATED == 201
HTTP_ACCEPTED == 202
HTTP_MULTIPLE_CHOICES == 300
HTTP_BAD_REQUEST == 400
HTTP_PRECONDITION_FAILED == 412
HTTP_REQUEST_ENTITY_TOO_LARGE == 413

-----------------------------------------------------------------------------
(* Dictionaries (header sets)                                              *)

EmptyDict == [k \in {} |-> 0]

Has(h, k) == k \in DOMAIN h

\* h[k] = v
Put(h, k, v) == [x \in (DOMAIN h) \cup {k} |-> IF x = k THEN v ELSE h[x]]

\* h.pop(k, None) / del h[k]
Pop(h, k) == [x \in (DOMAIN h) \ {k} |-> h[x]]

\* for k, v in src.items(): if k in keys: dst[k] = v
Overlay(dst, src, keys) ==
    [x \in (DOMAIN dst) \cup ((DOMAIN src) \cap keys) |->
        IF x \in (DOMAIN src) \cap keys THEN src[x] ELSE dst[x]]

Restrict(h, keys) == [x \in (DOMAIN h) \cap keys |-> h[x]]

-----------------------------------------------------------------------------
(* Names and URL quoting                                                   *)

\* urllib.quote on one path segment: '%' becomes '%25', ' ' becomes '%20'.
quote(s) ==
    CASE s = "o p"     -> "o%20p"
      [] s = "o%20p"   -> "o%2520p"
      [] OTHER         -> s

\* urllib.unquote on one path segment.
unquote(s) ==
    CASE s = "o%20p"   -> "o p"
      [] s = "o%2520p" -> "o%20p"
      [] OTHER         -> s

quote_path(p) == [i \in 1..Len(p) |-> quote(p[i])]

unquote_path(p) == [i \in 1..Len(p) |-> unquote(p[i])]

-----------------------------------------------------------------------------
(* Helpers of swift.common (utils, http, request_helpers, constraints)     *)

\* swift.common.http.is_success
is_success(status) == status >= 200 /\ status <= 299

\* s.startswith(prefix)
startswith(s, prefix) ==
    Len(s) >= Len(prefix) /\ SubSeq(s, 1, Len(prefix)) = prefix

\* s.strip(), for the blanks of a configuration value.
RECURSIVE strip(_)
strip(s) ==
    IF Len(s) > 0 /\ SubSeq(s, 1, 1) = " "
    THEN strip(SubSeq(s, 2, Len(s)))
    ELSE IF Len(s) > 0 /\ SubSeq(s, Len(s), Len(s)) = " "
    THEN strip(SubSeq(s, 1, Len(s) - 1))
    ELSE s

\* s.split(sep) for a separator of one character.
RECURSIVE split(_, _)
split(s, sep) ==
    IF \E i \in 1..Len(s) : SubSeq(s, i, i) = sep
    THEN LET first == CHOOSE i \in 1..Len(s) :
                        /\ SubSeq(s, i, i) = sep
                        /\ \A j \in 1..(i - 1) : SubSeq(s, j, j) # sep
         IN  <<SubSeq(s, 1, first - 1)>>
                \o split(SubSeq(s, first + 1, Len(s)), sep)
    ELSE <<s>>

\* str.lower() on one character.
lower_char(c) ==
    CASE c = "A" -> "a"
      [] c = "B" -> "b"
      [] c = "C" -> "c"
      [] c = "D" -> "d"
      [] c = "E" -> "e"
      [] c = "F" -> "f"
      [] c = "G" -> "g"
      [] c = "H" -> "h"
      [] c = "I" -> "i"
      [] c = "J" -> "j"
      [] c = "K" -> "k"
      [] c = "L" -> "l"
      [] c = "M" -> "m"
      [] c = "N" -> "n"
      [] c = "O" -> "o"
      [] c = "P" -> "p"
      [] c = "Q" -> "q"
      [] c = "R" -> "r"
      [] c = "S" -> "s"
      [] c = "T" -> "t"
      [] c = "U" -> "u"
      [] c = "V" -> "v"
      [] c = "W" -> "w"
      [] c = "X" -> "x"
      [] c = "Y" -> "y"
      [] c = "Z" -> "z"
      [] OTHER -> c

\* str.lower()
RECURSIVE lower(_)
lower(s) ==
    IF s = "" THEN ""
    ELSE lower_char(SubSeq(s, 1, 1)) \o lower(SubSeq(s, 2, Len(s)))

\* swift.common.utils.config_true_value
config_true_value(v) == lower(v) \in {"true", "1", "yes", "on", "t", "y"}

UserMetaKeys == {"X-Object-Meta-A", "X-Object-Meta-B"}

SysMetaKeys == {"X-Object-Sysmeta-S", "X-Object-Sysmeta-T"}

\* swift.common.request_helpers.is_sys_meta('object', k)
is_sys_meta(k) == k \in SysMetaKeys

\* swift.common.request_helpers.is_user_meta('object', k)
is_user_meta(k) == k \in UserMetaKeys

\* swift.common.request_helpers.is_sys_or_user_meta('object', k)
is_sys_or_user_meta(k) == is_sys_meta(k) \/ is_user_meta(k)

\* Keys that swift.proxy.controllers.obj.copy_headers_into copies.
CopiedKeys(h) == {k \in DOMAIN h : is_sys_or_user_meta(k) \/ k = "X-Delete-At"}

\* swift.proxy.controllers.obj.copy_headers_into(from_r, to_r)
copy_headers_into(from_headers, to_headers) ==
    Overlay(to_headers, from_headers, CopiedKeys(from_headers))

\* swift.common.request_helpers.remove_items(headers, is_sys_meta)
remove_items(headers) ==
    [k \in {x \in DOMAIN headers : ~is_sys_meta(x)} |-> headers[k]]

\* swift.common.request_helpers.copy_header_subset(from_r, to_r, is_sys_meta)
copy_header_subset(from_headers, to_headers) ==
    Overlay(to_headers, from_headers,
            {k \in DOMAIN from_headers : is_sys_meta(k)})

\* swift.common.utils.split_path(path, minsegs, maxsegs, True): the path
\* splits when it has at least minsegs non-empty segments; what follows
\* segment maxsegs - 1 is the rest.
split_path_ok(path, minsegs) ==
    /\ Len(path) >= minsegs
    /\ \A i \in 1..minsegs : path[i] # ""

\* swift.common.constraints.check_account_format: the account must be
\* non-empty and free of slashes.
check_account_format_ok(account) == account # "" /\ account # "a/b"

\* swift.common.constraints.check_path_header: the unquoted header value
\* must be <container name>/<object name>.
check_path_header(value) ==
    LET p == unquote_path(value)
    IN  [ok |-> split_path_ok(p, 2) /\ Len(p) = 2, path |-> p]

\* swift.common.constraints.check_destination_header
check_destination_header(r) == check_path_header(r.headers["Destination"])

\* swift.common.constraints.check_copy_from_header
check_copy_from_header(r) == check_path_header(r.headers["X-Copy-From"])

-----------------------------------------------------------------------------
(* Responses                                                               *)

NoResponse ==
    [kind |-> "none", status |-> 0, headers |-> EmptyDict,
     added |-> EmptyDict, body |-> ""]

\* A swob response that a handler returns through start_response.
Returned(status, headers, body) ==
    [kind |-> "returned", status |-> status, headers |-> headers,
     added |-> EmptyDict, body |-> body]

\* An exception that leaves ServerSideCopyMiddleware.__call__ uncaught.
Raised(status, body) ==
    [kind |-> "raised", status |-> status, headers |-> EmptyDict,
     added |-> EmptyDict, body |-> body]

ErrorHeaders == "Content-Type" :> "text/html; charset=UTF-8"

HTTPBadRequest ==
    Returned(HTTP_BAD_REQUEST, "Content-Type" :> "text/plain",
             "Copy requests require a zero byte body")

HTTPPreconditionFailed(body) ==
    Returned(HTTP_PRECONDITION_FAILED, ErrorHeaders, body)

\* The response object HTTPRequestEntityTooLarge(request=req).
HTTPRequestEntityTooLarge ==
    [status |-> HTTP_REQUEST_ENTITY_TOO_LARGE, content_length |-> 0,
     headers |-> ErrorHeaders, body |-> "Request Entity Too Large"]

NoSourceResp ==
    [status |-> 0, content_length |-> 0, headers |-> EmptyDict, body |-> ""]

NoRequest ==
    [method |-> "", path |-> <<>>, headers |-> EmptyDict, params |-> "",
     environ |-> [orig_req_method |-> "", post_as_copy |-> FALSE,
                  log_info |-> <<>>],
     body |-> ""]

-----------------------------------------------------------------------------
(* Client requests of the model                                            *)

Versions == {"v1", "v1.0"}

Objects == {"o", "o%20p"}

\* PATH_INFO values on an object.
Paths == {<<v, "a", "c", o>> : v \in Versions, o \in Objects}

\* PATH_INFO values on a container.
ContainerPaths == {<<v, "a", "c">> : v \in Versions}

\* A header that is absent or has one of the given values.
Opt(k, values) == {EmptyDict} \cup {k :> v : v \in values}

\* Metadata headers a client supplies.
ClientMeta ==
    { EmptyDict,
      ("X-Object-Meta-A" :> "2") @@ ("X-Object-Meta-B" :> "3"),
      ("X-Object-Meta-A" :> "2") @@ ("X-Object-Sysmeta-S" :> "client-s") }

\* Content type, metadata mode, metadata and other headers of a request.
Extras ==
    {ct @@ fm @@ md : ct \in Opt("Content-Type", {"text/client"}),
                      fm \in Opt("X-Fresh-Metadata", {"true"}),
                      md \in ClientMeta}
        \cup Opt("Content-Type", {""})
        \cup Opt("X-Fresh-Metadata", {"false"})
        \cup Opt("X-Backend-Storage-Policy-Index", {"1"})

ContentLengths == Opt("Content-Length", 0..MaxBody)

\* X-Copy-From: empty, container/object (quoted), or a container only.
CopyFroms == Opt("X-Copy-From", {<<>>, <<"c3", "o%20p">>, <<"c3">>})

\* Destination: empty, container/object (quoted), or a container only.
Destinations == Opt("Destination", {<<>>, <<"c2", "o%20p">>, <<"c2">>})

ClientRequest(method, path, headers, params) ==
    [method |-> method, path |-> path, headers |-> headers,
     params |-> params, body |-> "client-body",
     environ |-> [orig_req_method |-> "", post_as_copy |-> FALSE,
                  log_info |-> <<>>]]

PutRequests ==
    {ClientRequest("PUT", p, cl @@ cf @@ ca @@ ex, "") :
        p \in Paths, cl \in ContentLengths, cf \in CopyFroms,
        ca \in Opt("X-Copy-From-Account", {"a3"}), ex \in Extras}

CopyRequests ==
    {ClientRequest("COPY", p, cl @@ de @@ da @@ ca @@ ex, "") :
        p \in Paths, cl \in ContentLengths, de \in Destinations,
        da \in Opt("Destination-Account", {"a2", ""}),
        ca \in Opt("X-Copy-From-Account", {"a3"}), ex \in Extras}

PostRequests ==
    {ClientRequest("POST", p, cl @@ cf @@ ex, "") :
        p \in Paths, cl \in ContentLengths,
        cf \in Opt("X-Copy-From", {<<"c3", "o%20p">>}), ex \in Extras}

OtherRequests ==
    {ClientRequest(m, p, cl, "") :
        m \in {"GET", "OPTIONS"}, p \in Paths, cl \in ContentLengths}

\* Requests on a container, which the middleware does not handle.
ContainerRequests ==
    {ClientRequest(m, p, cl @@ cf @@ de, "") :
        m \in {"PUT", "COPY", "POST", "OPTIONS"}, p \in ContainerPaths,
        cl \in Opt("Content-Length", {0}),
        cf \in Opt("X-Copy-From", {<<"c3", "o%20p">>}),
        de \in Opt("Destination", {<<"c2", "o%20p">>})}

\* A manifest copy: ?multipart-manifest=get
ManifestRequests ==
    {ClientRequest("PUT", <<"v1", "a", "c", "o">>,
                   ("Content-Length" :> 0)
                       @@ ("X-Copy-From" :> <<"c3", "o%20p">>),
                   "multipart-manifest=get")}

Requests ==
    PutRequests \cup CopyRequests \cup PostRequests \cup OtherRequests
        \cup ContainerRequests \cup ManifestRequests

-----------------------------------------------------------------------------
(* Backend responses of the model                                          *)

SourceMeta ==
    { EmptyDict,
      ("X-Object-Meta-A" :> "1") @@ ("X-Object-Sysmeta-S" :> "source-s"),
      ("X-Object-Meta-A" :> "1") @@ ("X-Object-Sysmeta-T" :> "source-t") }

SourceBase ==
    ("Content-Type" :> "text/source") @@ ("Etag" :> "source-etag")

SourceStatuses == {200, 304, 404}

SourceLengths ==
    {NoLength} \cup 0..MaxSmallLength
        \cup {MAX_FILE_SIZE, MAX_FILE_SIZE + 1}

\* What the source fetch (after the copy hook) may answer.
SourceResponses ==
    {[status |-> st, content_length |-> n, body |-> "source-body",
      headers |-> SourceBase @@ ("X-Object-Meta-A" :> "1")] :
        st \in SourceStatuses, n \in SourceLengths}
    \cup
    {[status |-> 200, content_length |-> 1, body |-> "source-body",
      headers |-> SourceBase @@ md @@ lm @@ slo] :
        md \in SourceMeta,
        lm \in Opt("Last-Modified", {"source-date"}),
        slo \in Opt("X-Static-Large-Object", {"True"})}

\* What the backend may answer to a PUT or to a passed-through request.
BackendStatuses == {200, 201, 404}

BackendHeaders == "X-Trans-Id" :> "tx"

-----------------------------------------------------------------------------
(* ServerSideCopyMiddleware: the handlers up to the first downstream call  *)

\* req.headers.get(k) is truthy, for a path-valued header: the header is
\* present and not empty.
Truthy(h, k) == Has(h, k) /\ h[k] # <<>>

\* A variant that takes a header that is present for a value.
TruthyText_present(h, k) == Has(h, k)

\* req.headers.get(k) is truthy, for a plain header.
TruthyText(h, k) == Has(h, k) /\ h[k] # ""

\* What a handler hands back: the next position, the request as rewritten
\* so far, the instance fields, the source path and the response.
Outcome(next, r, self, path, resp) ==
    [pc |-> next, req |-> r, self |-> self, source_path |-> path,
     response |-> resp]

handle_PUT(r, self) ==
    IF ~Has(r.headers, "Content-Length")
    THEN \* req.headers['Content-Length'] raises KeyError
         Outcome("done", r, self, <<>>, Raised(0, "KeyError"))
    ELSE IF r.headers["Content-Length"] # 0
    THEN Outcome("done", r, self, <<>>, HTTPBadRequest)
    ELSE
    LET logged ==
            IF r.environ.orig_req_method # "POST"
            THEN [r EXCEPT !.environ.log_info =
                      Append(@, <<"x-copy-from", r.headers["X-Copy-From"]>>)]
            ELSE r
        ver == r.path[1]
        acct == r.path[2]
        given == TruthyText(r.headers, "X-Copy-From-Account")
        src_account_name ==
            IF given THEN r.headers["X-Copy-From-Account"] ELSE acct
        src == check_copy_from_header(logged)
    IN  IF given /\ ~check_account_format_ok(src_account_name)
        THEN Outcome("done", logged, self, <<>>,
                     Raised(HTTP_PRECONDITION_FAILED, "Account name"))
        ELSE IF ~src.ok
        THEN Outcome("done", logged, self, <<>>,
                     Raised(HTTP_PRECONDITION_FAILED, "X-Copy-From header"))
        ELSE Outcome("fetch", logged, self,
                     <<ver, src_account_name, src.path[1], src.path[2]>>,
                     NoResponse)

\* missing_destination that takes an empty Destination for a destination.
missing_destination_absent_only(r) == ~Has(r.headers, "Destination")

\* handle_COPY: not req.headers.get('Destination')
missing_destination(r) == ~Truthy(r.headers, "Destination")

handle_COPY(r, self) ==
    IF missing_destination(r)
    THEN Outcome("done", r, self, <<>>,
                 HTTPPreconditionFailed("Destination header required"))
    ELSE
    LET cross == Has(r.headers, "Destination-Account")
        dest_account ==
            IF cross THEN r.headers["Destination-Account"]
            ELSE self.account_name
        r1 == IF cross
              THEN [r EXCEPT !.headers =
                       Pop(Put(@, "X-Copy-From-Account", self.account_name),
                           "Destination-Account")]
              ELSE r
        self1 == IF cross THEN [self EXCEPT !.account_name = dest_account]
                 ELSE self
        dest == check_destination_header(r1)
        source == <<self.container_name, self.object_name>>
        self2 == [self1 EXCEPT !.container_name = dest.path[1],
                               !.object_name = dest.path[2]]
        r2 == [r1 EXCEPT
                 !.method = "PUT",
                 !.path = <<"v1", dest_account, dest.path[1], dest.path[2]>>,
                 !.headers = Pop(Put(Put(@, "Content-Length", 0),
                                     "X-Copy-From", quote_path(source)),
                                 "Destination")]
    IN  IF cross /\ ~check_account_format_ok(dest_account)
        THEN Outcome("done", r, self, <<>>,
                     Raised(HTTP_PRECONDITION_FAILED, "Account name"))
        ELSE IF ~dest.ok
        THEN Outcome("done", r1, self1, <<>>,
                     Raised(HTTP_PRECONDITION_FAILED, "Destination header"))
        ELSE handle_PUT(r2, self2)

\* handle_object_post_as_copy reads the fields of the instance twice: for
\* the path (self) and, after that, for X-Copy-From (later).
handle_object_post_as_copy(r, self, later) ==
    handle_PUT(
        [r EXCEPT
           !.method = "PUT",
           !.path = <<"v1", self.account_name, self.container_name,
                      self.object_name>>,
           !.headers = Put(Put(@, "Content-Length", 0), "X-Copy-From",
                           quote_path(<<later.container_name,
                                        later.object_name>>)),
           !.environ.post_as_copy = TRUE],
        self)

\* ServerSideCopyMiddleware.__call__ from the point where the path of the
\* request is stored in the instance: the handler of the method runs on
\* the fields of the instance as it reads them; later is what the second
\* reading of handle_object_post_as_copy finds.
dispatch(r, self, later, post_as_copy) ==
    LET r1 == [r EXCEPT !.environ.orig_req_method = r.method]
    IN  IF r1.method = "PUT" /\ Truthy(r1.headers, "X-Copy-From")
        THEN handle_PUT(r1, self)
        ELSE IF r1.method = "COPY"
        THEN handle_COPY(r1, self)
        ELSE IF r1.method = "POST" /\ post_as_copy
        THEN handle_object_post_as_copy(r1, self, later)
        ELSE IF r1.method = "OPTIONS"
        THEN Outcome("options", r1, self, <<>>, NoResponse)
        ELSE Outcome("app", r1, self, <<>>, NoResponse)

\* The fields __call__ stores in the instance for a request on an object.
path_fields(r) ==
    [account_name |-> r.path[2], container_name |-> r.path[3],
     object_name |-> r.path[4]]

\* ServerSideCopyMiddleware.__call__ up to the first downstream call.
call(r, self, post_as_copy) ==
    IF ~(split_path_ok(r.path, 4) /\ Len(r.path) = 4)
    THEN Outcome("app", r, self, <<>>, NoResponse)
    ELSE dispatch(r, path_fields(r), path_fields(r), post_as_copy)

\* A variant that leaves the storage policy index of the destination on
\* the source request.
get_source_req_keep_policy(r, path) ==
    [r EXCEPT
       !.method = "GET",
       !.body = "",
       !.path = quote_path(path),
       !.headers = Put(Put(@, "Content-Length", 0), "X-Newest", "true")]

\* CopyHelper._get_source_object: the source request it builds.
get_source_req(r, path) ==
    [r EXCEPT
       !.method = "GET",
       !.body = "",
       !.path = quote_path(path),
       !.headers = Put(Pop(Put(@, "Content-Length", 0),
                           "X-Backend-Storage-Policy-Index"),
                       "X-Newest", "true")]

\* A downstream call or its return, as recorded in subreqs; status is the
\* status the backend answered with (0 for a call).
Event(ev, kind, method, path, status) ==
    [ev |-> ev, kind |-> kind, method |-> method, path |-> path,
     status |-> status]

\* ServerSideCopyWebContext.get_source_resp: make_subrequest unquotes the
\* path of the source request.
FetchCall(sreq) ==
    Event("call", "fetch", sreq.method, unquote_path(sreq.path), 0)

-----------------------------------------------------------------------------
(* CopyHelper.copy after the source fetch                                  *)

\* get_source_object with the size test off by one (>= for >).
get_source_object_size_inclusive(resp) ==
    IF resp.content_length = NoLength
    THEN HTTPRequestEntityTooLarge
    ELSE IF resp.content_length >= MAX_FILE_SIZE
    THEN HTTPRequestEntityTooLarge
    ELSE resp

\* get_source_object without the test for an unknown length.
get_source_object_no_length_test(resp) ==
    IF resp.content_length > MAX_FILE_SIZE
    THEN HTTPRequestEntityTooLarge
    ELSE resp

\* CopyHelper._get_source_object: what it returns for the source response
\* the copy hook handed back.
get_source_object(resp) ==
    IF resp.content_length = NoLength
    THEN HTTPRequestEntityTooLarge
    ELSE IF resp.content_length > MAX_FILE_SIZE
    THEN HTTPRequestEntityTooLarge
    ELSE resp

\* source_failed that lets redirections through (>= 400 for >= 300).
source_failed_client_errors_only(resp) == resp.status >= HTTP_BAD_REQUEST

\* CopyHelper.copy: the source response makes the copy bail out.
source_failed(resp) == resp.status >= HTTP_MULTIPLE_CHOICES

\* merge_metadata with the two copies of the normal mode in the other
\* order: the source's metadata is laid over the client's.
merge_metadata_source_last(r, resp, headers) ==
    LET fresh_meta_flag ==
            config_true_value(IF Has(headers, "X-Fresh-Metadata")
                              THEN headers["X-Fresh-Metadata"] ELSE "false")
    IN  IF fresh_meta_flag \/ r.environ.post_as_copy
        THEN copy_header_subset(resp.headers, remove_items(headers))
        ELSE copy_headers_into(resp.headers,
                               copy_headers_into(r.headers, headers))

\* merge_metadata that keeps the client's system metadata in fresh-metadata
\* mode (no remove_items).
merge_metadata_keep_sysmeta(r, resp, headers) ==
    LET fresh_meta_flag ==
            config_true_value(IF Has(headers, "X-Fresh-Metadata")
                              THEN headers["X-Fresh-Metadata"] ELSE "false")
    IN  IF fresh_meta_flag \/ r.environ.post_as_copy
        THEN copy_header_subset(resp.headers, headers)
        ELSE copy_headers_into(r.headers,
                               copy_headers_into(resp.headers, headers))

\* The metadata merge of CopyHelper.copy on the headers of the sink request.
merge_metadata(r, resp, headers) ==
    LET fresh_meta_flag ==
            config_true_value(IF Has(headers, "X-Fresh-Metadata")
                              THEN headers["X-Fresh-Metadata"] ELSE "false")
    IN  IF fresh_meta_flag \/ r.environ.post_as_copy
        THEN copy_header_subset(resp.headers, remove_items(headers))
        ELSE copy_headers_into(r.headers,
                               copy_headers_into(resp.headers, headers))

\* sink_req.headers.pop('X-Copy-From', None) and the same for
\* X-Copy-From-Account
drop_copy_source(headers) ==
    Pop(Pop(headers, "X-Copy-From"), "X-Copy-From-Account")

\* CopyHelper.copy: the sink request built from the original request and the
\* source response.  sink_req.content_length sets the Content-Length
\* header; sink_req.etag sets an attribute of the request object that is
\* no header, so the request that is sent has no Etag of the source.
make_sink_req(r, resp) ==
    LET h1 == Put(r.headers, "Content-Length", resp.content_length)
        h2 == drop_copy_source(h1)
        h3 == IF ~TruthyText(r.headers, "Content-Type")
              THEN Put(h2, "Content-Type", resp.headers["Content-Type"])
              ELSE h2
        h4 == merge_metadata(r, resp, h3)
        h5 == IF /\ Has(resp.headers, "X-Static-Large-Object")
                 /\ \/ r.params = "multipart-manifest=get"
                    \/ r.environ.post_as_copy
              THEN Put(h4, "X-Static-Large-Object",
                       resp.headers["X-Static-Large-Object"])
              ELSE h4
    IN  [r EXCEPT !.body = resp.body, !.headers = h5]

\* CopyHelper._create_response_headers
create_response_headers(path, resp, sink) ==
    LET h1 == ("X-Copied-From-Account" :> <<quote(path[2])>>)
                @@ ("X-Copied-From" :> quote_path(<<path[3], path[4]>>))
        h2 == IF Has(resp.headers, "Last-Modified")
              THEN Put(h1, "X-Copied-From-Last-Modified",
                       resp.headers["Last-Modified"])
              ELSE h1
    IN  Overlay(h2, sink.headers, CopiedKeys(sink.headers))

\* adjust_put_status that translates 201 whatever the original method.
adjust_put_status_any_method(status, original_req_method) ==
    IF status = HTTP_CREATED THEN HTTP_ACCEPTED ELSE status

\* ServerSideCopyWebContext._adjust_put_response: the status line.
adjust_put_status(status, original_req_method) ==
    IF original_req_method = "POST" /\ status = HTTP_CREATED
    THEN HTTP_ACCEPTED
    ELSE status

\* A variant that appends the headers whatever the status.
adjust_put_headers_always(status, additional_resp_headers) ==
    additional_resp_headers

\* ServerSideCopyWebContext._adjust_put_response: the headers appended.
adjust_put_headers(status, additional_resp_headers) ==
    IF is_success(status) THEN additional_resp_headers ELSE EmptyDict

-----------------------------------------------------------------------------
(* OPTIONS                                                                 *)

\* A variant that never finds COPY in a value.
HasCOPY_never(value) == FALSE

\* 'COPY' in value, for a header value given as its list of method names.
HasCOPY(value) == \E i \in 1..Len(value) : value[i] \in {"COPY", "XCOPY"}

\* ServerSideCopyWebContext.handle_OPTIONS_request on the response headers.
options_headers(status, headers) ==
    IF ~is_success(status) THEN headers
    ELSE
    LET allow == {k \in DOMAIN headers : k \in {"Allow", "allow"}}
        acam == {k \in DOMAIN headers :
                    k \in {"Access-Control-Allow-Methods",
                           "access-control-allow-methods"}}
        hit == {k \in allow \cup acam : ~HasCOPY(headers[k])}
        Canon(k) == IF k \in allow THEN "Allow"
                    ELSE "Access-Control-Allow-Methods"
        Key(k) == IF k \in hit THEN Canon(k) ELSE k
    IN  [x \in {Key(k) : k \in DOMAIN headers} |->
            LET k == CHOOSE y \in DOMAIN headers : Key(y) = x
            IN  IF k \in hit THEN Append(headers[k], "COPY") ELSE headers[k]]

OptionsHeaders ==
    {a @@ m @@ BackendHeaders :
        a \in Opt("Allow", {<<"GET", "PUT">>, <<"GET", "COPY">>})
                \cup Opt("allow", {<<"GET">>}),
        m \in Opt("Access-Control-Allow-Methods", {<<"GET">>})}

-----------------------------------------------------------------------------
(* Data migration middleware (swift/common/middleware/data_migration.py,   *)
(* swift/common/data_migration_common.py, data_migrator_drivers.py)        *)
(*                                                                         *)
(* DataMigrationMiddleware.__call__ forwards a request, and on a 404 of a *)
(* GET/HEAD on an object of a container with an active migration it        *)
(* resolves a driver, reads the object from the old storage, uploads it    *)
(* and replays the request.  The backend keeps the container's system      *)
(* metadata and the objects; a header set is a function from the header    *)
(* names that are present to their values.                                 *)

\* Requests DataMigrationMiddleware serves in one behaviour.
MaxRequests == 3

\* Largest timestamp an old storage reports; the local clock reads a value
\* strictly inside 0..MaxTimestamp.
MaxTimestamp == 3

HTTP_OK == 200
HTTP_NO_CONTENT == 204
HTTP_NOT_FOUND == 404
HTTP_SERVICE_UNAVAILABLE == 503

\* A driver's None for the timestamp (the lengths have NoLength).
NoTimestamp == -1

\* str.title() on the required keys of the drivers.
title(key) ==
    CASE key = "token-url" -> "Token-Url"
      [] key = "user" -> "User"
      [] key = "key" -> "Key"
      [] key = "provider" -> "Provider"
      [] key = "source" -> "Source"
      [] key = "active" -> "Active"
      [] OTHER -> key

\* 'X-Container-Migration-' + key.title()
migration_header(key) ==
    CASE key = "provider" -> "X-Container-Migration-Provider"
      [] key = "source" -> "X-Container-Migration-Source"
      [] key = "active" -> "X-Container-Migration-Active"
      [] title(key) = "Token-Url" -> "X-Container-Migration-Token-Url"
      [] title(key) = "User" -> "X-Container-Migration-User"
      [] title(key) = "Key" -> "X-Container-Migration-Key"
      [] OTHER -> "X-Container-Migration-?"

MigrationHeaderNames ==
    {migration_header(k) :
        k \in {"provider", "source", "active", "token-url", "user", "key"}}

\* key.replace('X-Container-', 'X-Container-Sysmeta-')
sysmeta_header(h) ==
    CASE h = "X-Container-Migration-Provider" ->
            "X-Container-Sysmeta-Migration-Provider"
      [] h = "X-Container-Migration-Source" ->
            "X-Container-Sysmeta-Migration-Source"
      [] h = "X-Container-Migration-Active" ->
            "X-Container-Sysmeta-Migration-Active"
      [] h = "X-Container-Migration-Token-Url" ->
            "X-Container-Sysmeta-Migration-Token-Url"
      [] h = "X-Container-Migration-User" ->
            "X-Container-Sysmeta-Migration-User"
      [] h = "X-Container-Migration-Key" ->
            "X-Container-Sysmeta-Migration-Key"
      [] OTHER -> h

\* key.replace('Sysmeta-', '') on a response header of the container.
client_header(h) ==
    CASE h = "X-Container-Sysmeta-Migration-Provider" ->
            "X-Container-Migration-Provider"
      [] h = "X-Container-Sysmeta-Migration-Source" ->
            "X-Container-Migration-Source"
      [] h = "X-Container-Sysmeta-Migration-Active" ->
            "X-Container-Migration-Active"
      [] OTHER -> h

\* The key under which get_container_info reports a system metadata header
\* of the container: the header name without 'X-Container-Sysmeta-', in
\* lower case.
sysmeta_name(h) ==
    CASE h = "X-Container-Sysmeta-Migration-Provider" -> "migration-provider"
      [] h = "X-Container-Sysmeta-Migration-Source" -> "migration-source"
      [] h = "X-Container-Sysmeta-Migration-Active" -> "migration-active"
      [] h = "X-Container-Sysmeta-Migration-Token-Url" ->
            "migration-token-url"
      [] h = "X-Container-Sysmeta-Migration-User" -> "migration-user"
      [] h = "X-Container-Sysmeta-Migration-Key" -> "migration-key"
      [] OTHER -> h

SysmetaHeaderNames == {sysmeta_header(h) : h \in MigrationHeaderNames}

\* d.get(k, default)
Get(d, k, default) == IF k \in DOMAIN d THEN d[k] ELSE default

-----------------------------------------------------------------------------
(* The driver registry built by filter_factory                             *)

\* One entry of migration_conf.
RegistryEntry(keys, the_class, driver_loaded, additional_params) ==
    [keys |-> keys, the_class |-> the_class, driver_loaded |-> driver_loaded,
     additional_params |-> additional_params]

\* migration_conf for supported_drivers = fsystem,swift with
\* driver_swift_keys = token-url,user,key; swiftclient is installed or
\* not, and driver_fsystem_parent_path is configured, left out or left
\* empty.
Registry(swift_loaded, fsystem_params) ==
    ("fsystem" :> RegistryEntry(<<>>, "FileSystemAccessDriver", TRUE,
                                fsystem_params))
    @@ ("swift" :> RegistryEntry(<<"token-url", "user", "key">>,
                                 "SwiftAccessDriver", swift_loaded,
                                 EmptyDict))

ParentPath == "driver_fsystem_parent_path" :> "/tmp/"

Registries ==
    {Registry(TRUE, ParentPath), Registry(FALSE, ParentPath),
     Registry(TRUE, EmptyDict),
     Registry(TRUE, "driver_fsystem_parent_path" :> "")}

nonempty(s) == s # ""

\* [x.strip() for x in text.split(',') if x.strip()]
split_list(text) ==
    LET parts == split(text, ",")
    IN  SelectSeq([i \in DOMAIN parts |-> strip(parts[i])], nonempty)

\* module_name[module_name.rfind(':') + 1:], the class filter_factory
\* takes from the module it imports.
class_name(module_name) ==
    LET colons == {i \in 1..Len(module_name) :
                        SubSeq(module_name, i, i) = ":"}
        last == IF colons = {} THEN 0
                ELSE CHOOSE i \in colons : \A j \in colons : j <= i
    IN  SubSeq(module_name, last + 1, Len(module_name))

\* the_class.driver_loaded: SwiftAccessDriver is loaded when swiftclient
\* could be imported, FileSystemAccessDriver always.
class_driver_loaded(the_class, swiftclient) ==
    IF the_class = "SwiftAccessDriver" THEN swiftclient ELSE TRUE

\* The additional static parameters filter_factory collects for the
\* provider dr.
add_params(c, dr) ==
    LET reserved == {"driver_" \o dr \o "_keys",
                     "driver_" \o dr \o "_module"}
    IN  Restrict(c, {key \in DOMAIN c :
                        /\ key \notin reserved
                        /\ startswith(key, "driver_" \o dr)})

\* migration_conf as filter_factory builds it from the merged
\* configuration c.
filter_factory(c, swiftclient) ==
    LET supported_drivers == split_list(Get(c, "supported_drivers", ""))
    IN  [dr \in {supported_drivers[i] : i \in DOMAIN supported_drivers} |->
            LET the_class ==
                    class_name(Get(c, "driver_" \o dr \o "_module", ""))
            IN  RegistryEntry(
                    split_list(Get(c, "driver_" \o dr \o "_keys", "")),
                    the_class,
                    class_driver_loaded(the_class, swiftclient),
                    add_params(c, dr))]

\* The options of the two drivers of the repository, and of a second
\* swift provider registered under the name swiftv2.
FsystemOptions ==
    "driver_fsystem_module" :>
        "swift.common.data_migrator_drivers:FileSystemAccessDriver"

SwiftOptions ==
    ("driver_swift_module" :>
        "swift.common.data_migrator_drivers:SwiftAccessDriver")
    @@ ("driver_swift_keys" :> "token-url,user,key")

SwiftV2Options ==
    ("driver_swiftv2_module" :>
        "swift.common.data_migrator_drivers:SwiftAccessDriver")
    @@ ("driver_swiftv2_keys" :> "token-url, user, key")

ParentPathOptions ==
    {ParentPath, EmptyDict, "driver_fsystem_parent_path" :> ""}

\* The configurations the registries above are built from.
RegistryConfs ==
    {("supported_drivers" :> "fsystem,swift") @@ FsystemOptions
        @@ SwiftOptions @@ parent : parent \in ParentPathOptions}

\* Configurations of the filter: the list of supported drivers, the
\* options of the drivers, and options of one provider only.  Every
\* supported driver has its module configured.
Configurations ==
    {("supported_drivers" :> drivers) @@ FsystemOptions @@ SwiftOptions
        @@ second @@ parent @@ region @@ timeout :
        drivers \in {"", "fsystem", "swift", "fsystem,swift",
                     " fsystem , swift,", "swift,swiftv2",
                     "fsystem,swift,swiftv2"},
        second \in {SwiftV2Options},
        parent \in ParentPathOptions,
        region \in {EmptyDict, "driver_swiftv2_region" :> "r1"},
        timeout \in {EmptyDict, "driver_swift_timeout" :> "30"}}

-----------------------------------------------------------------------------
(* Requests and responses of the data migration middleware                 *)

DmRequest(method, path, headers) ==
    [method |-> method, path |-> path, headers |-> headers,
     body |-> IF method \in {"PUT", "POST"} THEN "client-body" ELSE ""]

NoDmRequest == DmRequest("", <<>>, EmptyDict)

\* One step DataMigrationMiddleware took: a downstream call or its return,
\* a call of start_response, or a call of the driver.
DmEvent(step, status, headers) ==
    [step |-> step, status |-> status, headers |-> headers]

\* HTTPNotFound(req=req, headers=rh)
HTTPNotFound(headers) ==
    Returned(HTTP_NOT_FOUND, ErrorHeaders @@ headers, "Not Found")

\* HTTPBadRequest(body=..., headers=rh) of the data migration middleware.
HTTPBadRequestWith(body, headers) ==
    Returned(HTTP_BAD_REQUEST, ErrorHeaders @@ headers, body)

\* Migration setup headers of a container PUT/POST.
SetupHeaders ==
    {p @@ s @@ a :
        p \in Opt("X-Container-Migration-Provider", {"", "fsystem"}),
        s \in Opt("X-Container-Migration-Source", {"", "dir"}),
        a \in Opt("X-Container-Migration-Active", {"True"})}
    \cup
    {("X-Container-Migration-Provider" :> p)
        @@ ("X-Container-Migration-Source" :> "dir")
        @@ ("X-Container-Migration-Active" :> "True") @@ k :
        p \in {"swift", "Fsystem", "bogus"},
        k \in {EmptyDict,
               ("X-Container-Migration-Token-Url" :> "http://old/auth")
                  @@ ("X-Container-Migration-User" :> "test:tester"),
               ("X-Container-Migration-Token-Url" :> "http://old/auth")
                  @@ ("X-Container-Migration-User" :> "test:tester")
                  @@ ("X-Container-Migration-Key" :> "testing")}}
    \cup
    {("X-Container-Migration-Provider" :> "fsystem")
        @@ ("X-Container-Migration-Source" :> s)
        @@ ("X-Container-Migration-Active" :> a) :
        s \in {"..", "Dir", "//etc"}, a \in {"True", "False"}}

\* Headers of a request that is not a migration setup.
PlainHeaders ==
    {EmptyDict}
    \cup Opt("X-Container-Migration-Provider", {"swift"})
    \cup Opt("X-Container-Migration-Source", {"dir"})
    \cup Opt("X-Container-Migration-Active", {"True"})

ContainerPath == <<"v1", "a", "c">>

ObjectPath == <<"v1", "a", "c", "o">>

AccountPath == <<"v1", "a">>

DmRequests ==
    {DmRequest(m, ContainerPath, h) : m \in {"PUT", "POST"},
                                      h \in SetupHeaders}
    \cup {DmRequest(m, ContainerPath, h) :
            m \in {"GET", "HEAD"},
            h \in Opt("X-Container-Migration-Provider", {"fsystem"})}
    \cup {DmRequest(m, ObjectPath, h) : m \in {"GET", "HEAD"},
                                        h \in PlainHeaders}
    \cup {DmRequest(m, ObjectPath, EmptyDict) : m \in {"PUT", "POST"}}
    \cup {DmRequest("GET", AccountPath, EmptyDict)}

-----------------------------------------------------------------------------
(* DataMigrationMiddleware.__call__ up to the original call                *)

\* The outcome of the setup validation: a response, or the request to
\* forward.
Answer(resp) == [response |-> resp, req |-> NoDmRequest]

Forward(r) == [response |-> NoResponse, req |-> r]

\* A variant that repeats the provider, the source and the active flag
\* only.
set_sysmeta_headers_mandatory(r, migration_headers) ==
    LET hit == (DOMAIN r.headers) \cap migration_headers
                  \cap {"X-Container-Migration-Provider",
                        "X-Container-Migration-Source",
                        "X-Container-Migration-Active"}
    IN  DmRequest(r.method, r.path,
                  [x \in (DOMAIN r.headers) \cup {sysmeta_header(k) :
                                                    k \in hit} |->
                     IF \E k \in hit : sysmeta_header(k) = x
                     THEN r.headers[CHOOSE k \in hit : sysmeta_header(k) = x]
                     ELSE r.headers[x]])

\* for key, val in req.headers.iteritems(): if key in migration_headers:
\*     req.headers[key.replace('X-Container-', 'X-Container-Sysmeta-')] = val
set_sysmeta_headers(r, migration_headers) ==
    LET hit == (DOMAIN r.headers) \cap migration_headers
    IN  DmRequest(r.method, r.path,
                  [x \in (DOMAIN r.headers) \cup {sysmeta_header(k) :
                                                    k \in hit} |->
                     IF \E k \in hit : sysmeta_header(k) = x
                     THEN r.headers[CHOOSE k \in hit : sysmeta_header(k) = x]
                     ELSE r.headers[x]])

BaseMigrationHeaders ==
    {"X-Container-Migration-Provider", "X-Container-Migration-Source",
     "X-Container-Migration-Active"}

\* The required keys of a registry entry whose header the request lacks, in
\* the order of the entry.
missing_keys(r, keys) ==
    SelectSeq(keys, LAMBDA key : ~Has(r.headers, migration_header(key)))

\* 'Missing required header: X-Container-Migration-' + key.title()
missing_header_body(key) ==
    CASE title(key) = "Token-Url" ->
            "Missing required header: X-Container-Migration-Token-Url"
      [] title(key) = "User" ->
            "Missing required header: X-Container-Migration-User"
      [] title(key) = "Key" ->
            "Missing required header: X-Container-Migration-Key"
      [] OTHER -> "Missing required header: X-Container-Migration-?"

blank_never(val) == FALSE

\* val is None or val.strip() == ''
blank(val) == val \in {"", " "}

\* A variant that takes a source for present whenever its header is.
source_missing_absent_only(h) ==
    /\ Has(h, "X-Container-Migration-Provider")
    /\ ~Has(h, "X-Container-Migration-Source")

\* The source is missing: (not mig_source) and (prov is not None).
source_missing(h) ==
    /\ Has(h, "X-Container-Migration-Provider")
    /\ \/ ~Has(h, "X-Container-Migration-Source")
       \/ h["X-Container-Migration-Source"] = ""

\* The provider is missing: (not prov) and (mig_source is not None).
provider_missing(h) ==
    /\ Has(h, "X-Container-Migration-Source")
    /\ \/ ~Has(h, "X-Container-Migration-Provider")
       \/ h["X-Container-Migration-Provider"] = ""

driver_not_loaded_never(entry) == FALSE

\* self.migration_conf[prov]['driver_loaded'] is False
driver_not_loaded(entry) == entry.driver_loaded = FALSE

\* The validation of a PUT/POST on a container.
validate_setup(r, conf) ==
    LET h == r.headers
        prov == Get(h, "X-Container-Migration-Provider", "")
    IN  IF source_missing(h)
        THEN Answer(HTTPPreconditionFailed("Migration source is missing"))
        ELSE IF provider_missing(h)
        THEN Answer(HTTPPreconditionFailed("Migration provider is missing"))
        ELSE IF Has(h, "X-Container-Migration-Provider")
                /\ Has(h, "X-Container-Migration-Source")
        THEN IF prov \notin DOMAIN conf
             THEN Answer(HTTPBadRequestWith("Invalid provider", EmptyDict))
             ELSE IF driver_not_loaded(conf[prov])
             THEN Answer(HTTPBadRequestWith("Invalid access driver",
                                            EmptyDict))
             ELSE IF missing_keys(r, conf[prov].keys) # <<>>
             THEN Answer(HTTPBadRequestWith(
                      missing_header_body(
                          Head(missing_keys(r, conf[prov].keys))),
                      EmptyDict))
             ELSE IF \E key \in DOMAIN conf[prov].additional_params :
                        blank(conf[prov].additional_params[key])
             THEN Answer(HTTPBadRequestWith("Missing value", EmptyDict))
             ELSE Forward(set_sysmeta_headers(
                      r, BaseMigrationHeaders \cup
                         {migration_header(conf[prov].keys[i]) :
                            i \in 1..Len(conf[prov].keys)}))
        ELSE Forward(set_sysmeta_headers(r, BaseMigrationHeaders))

\* DataMigrationMiddleware.__call__ from its entry to the original call:
\* what it answers at once, or what it forwards.
dm_call(r, conf) ==
    IF ~split_path_ok(r.path, 3) THEN Forward(r)
    ELSE IF Len(r.path) = 3 /\ r.method \in {"PUT", "POST"}
    THEN validate_setup(r, conf)
    ELSE Forward(r)

\* DataMigrationContext.handle_original_call on the response headers: the
\* migration system metadata of the container is repeated under the
\* client-facing names.
handle_original_call(headers) ==
    LET sys == (DOMAIN headers) \cap
                  {sysmeta_header(h) : h \in BaseMigrationHeaders}
    IN  [x \in (DOMAIN headers) \cup {client_header(k) : k \in sys} |->
            IF x \in DOMAIN headers THEN headers[x]
            ELSE headers[CHOOSE k \in sys : client_header(k) = x]]

-----------------------------------------------------------------------------
(* Drivers (data_migrator_drivers.py) and remote_driver_resolver           *)

\* What a call into the migration code came to: a value, a
\* DataMigrationError (DataMigrationDriverError is re-raised as one), or
\* another exception.
Value(v) == [outcome |-> "value", value |-> v, msg |-> ""]

NoDriver == [the_class |-> "", data_source |-> <<>>, params |-> EmptyDict]

DataMigrationError(msg) ==
    [outcome |-> "DataMigrationError", value |-> NoDriver, msg |-> msg]

OtherException(msg) ==
    [outcome |-> "Exception", value |-> NoDriver, msg |-> msg]

\* path.find('..') >= 0
has_dots(path) ==
    \E i \in 1..(Len(path) - 1) : SubSeq(path, i, i + 1) = ".."

\* FileSystemAccessDriver.is_valid_path on a path that is not None.
is_valid_path(path) == ~(strip(path) = "" \/ has_dots(path))

\* data_source[1:] when data_source starts with os.path.sep
strip_sep(data_source) ==
    IF startswith(data_source, "/")
    THEN SubSeq(data_source, 2, Len(data_source))
    ELSE data_source

\* os.path.join(os.path.sep, root_path, data_source): the components that
\* remain; an absolute component discards what precedes it.
path_join(root_path, data_source) ==
    IF startswith(data_source, "/") THEN <<data_source>>
    ELSE <<root_path, data_source>>

\* os.path.join(os.path.sep, self.data_source, object_name) of get_object:
\* the components of the path of the file it opens.
file_path(data_source, name) ==
    IF startswith(name, "/") THEN <<name>>
    ELSE Append(data_source, name)

\* FileSystemAccessDriver.__init__
FileSystemAccessDriver(data_source, params) ==
    IF ~Has(params, "driver_fsystem_parent_path")
    THEN OtherException("driver_fsystem_parent_path parameter should be configured in proxy-server.conf")
    ELSE IF ~is_valid_path(params["driver_fsystem_parent_path"])
    THEN DataMigrationError("driver_fsystem_parent_path is invalid")
    ELSE IF ~is_valid_path(data_source)
    THEN DataMigrationError("Migration source is invalid")
    ELSE Value([the_class |-> "FileSystemAccessDriver",
                data_source |->
                    path_join(params["driver_fsystem_parent_path"],
                              strip_sep(data_source)),
                params |-> params])

\* SwiftAccessDriver.__init__
SwiftAccessDriver(data_source, params) ==
    Value([the_class |-> "SwiftAccessDriver",
           data_source |-> <<data_source>>,
           params |-> [k \in {"token-url", "user", "key"} |->
                          Get(params, k, "")]])

\* 'migration-' + key
metadata_key(key) ==
    CASE key = "token-url" -> "migration-token-url"
      [] key = "user" -> "migration-user"
      [] key = "key" -> "migration-key"
      [] OTHER -> "migration-?"

driver_usable_any(entry) == TRUE

\* migration_conf[mprovider]['driver_loaded'] is True
driver_usable(entry) == entry.driver_loaded = TRUE

\* DataMigrationMiddleware.remote_driver_resolver
remote_driver_resolver(md, conf) ==
    LET mprovider == lower(Get(md, "migration-provider", ""))
        data_source == lower(Get(md, "migration-source", ""))
    IN  IF mprovider \notin DOMAIN conf
        THEN DataMigrationError("Migration provider is missing")
        ELSE IF driver_usable(conf[mprovider])
        THEN LET entry == conf[mprovider]
                 keys == {entry.keys[i] : i \in 1..Len(entry.keys)}
                 add == entry.additional_params
                 params == [k \in keys \cup DOMAIN add |->
                               IF k \in DOMAIN add THEN add[k]
                               ELSE Get(md, metadata_key(k), "")]
             IN  IF entry.the_class = "FileSystemAccessDriver"
                 THEN FileSystemAccessDriver(data_source, params)
                 ELSE SwiftAccessDriver(data_source, params)
        ELSE DataMigrationError("Failed to retrieve remote driver")

\* What get_object returns: (metadata, read_length, body_stream,
\* content_type, timestamp), or the error it raises.
SourceObject(metadata, read_length, body_stream, content_type, timestamp) ==
    [outcome |-> "value", metadata |-> metadata,
     read_length |-> read_length, body_stream |-> body_stream,
     content_type |-> content_type, timestamp |-> timestamp, msg |-> ""]

\* {}, None, None, None, None
NoSourceObject == SourceObject(EmptyDict, NoLength, "None", "None",
                               NoTimestamp)

SourceError(outcome, msg) == [NoSourceObject EXCEPT !.outcome = outcome,
                                                    !.msg = msg]

\* FileSystemAccessDriver.get_object: os.stat fails, the path is a
\* directory, open fails, or the file is read with its owner, its extended
\* attributes, its guessed content type and its modification time.
FileSystemObjects ==
    {SourceError("DataMigrationError", "Failed to access object in file system"),
     SourceError("Exception", "IOError"),
     NoSourceObject}
    \cup {SourceObject(("uid" :> "1000") @@ ("gid" :> "100") @@ x, 1,
                       "file-bytes", ct, ts) :
            x \in Opt("user.color", {"red"}),
            ct \in {"text/plain", "None"},
            ts \in {1, MaxTimestamp}}

\* SwiftAccessDriver.get_object with swiftclient: authentication, the
\* connection or the GET fails, or the response is returned with its user
\* metadata, content-length, content-type and x-timestamp headers.
SwiftObjects ==
    {SourceError("DataMigrationError", "Object GET failed"),
     SourceError("Exception", "http_connection")}
    \cup {SourceObject(m, 1, "remote-bytes", "text/remote", ts) :
            m \in Opt("x-object-meta-a", {"1"}),
            ts \in {1, MaxTimestamp, NoTimestamp}}

get_object(driver) ==
    IF driver.the_class = "FileSystemAccessDriver" THEN FileSystemObjects
    ELSE SwiftObjects

-----------------------------------------------------------------------------
(* DataMigrationDriver.migrate_object and upload_object                    *)

\* The readings of time.time() during a migration.
Clock == 2..(MaxTimestamp - 1)

\* The name under which swob keeps a header: HeaderEnvironProxy turns a
\* name into its title-cased form.
header_name(k) ==
    CASE k = "x-object-meta-a" -> "X-Object-Meta-A"
      [] k = "X-Object-Meta-uid" -> "X-Object-Meta-Uid"
      [] k = "X-Object-Meta-gid" -> "X-Object-Meta-Gid"
      [] k = "X-Object-Meta-user.color" -> "X-Object-Meta-User.Color"
      [] OTHER -> k

\* A variant that prefixes every key.
object_meta_key_always_prefixed(key) ==
    CASE key = "uid" -> "X-Object-Meta-uid"
      [] key = "gid" -> "X-Object-Meta-gid"
      [] key = "user.color" -> "X-Object-Meta-user.color"
      [] key = "x-object-meta-a" -> "X-Object-Meta-x-object-meta-a"
      [] OTHER -> key

\* The header upload_object sets for a metadata key: the key itself when it
\* starts with 'x-object-meta-' (in any case), else 'X-Object-Meta-' + key.
object_meta_key(key) ==
    CASE key = "uid" -> "X-Object-Meta-uid"
      [] key = "gid" -> "X-Object-Meta-gid"
      [] key = "user.color" -> "X-Object-Meta-user.color"
      [] key = "x-object-meta-a" -> "x-object-meta-a"
      [] OTHER -> key

\* sys_metadata of migrate_object under the names upload_object gives it.
sys_metadata(now) ==
    ("X-Object-Sysmeta-Migration-Import-Time" :> now)
    @@ ("X-Object-Sysmeta-Migration-Import-Owner" :> "On-Demand")

\* A variant that takes the timestamp of the source as it is.
Min_source_timestamp(a, b) == b

\* min(time.time(), float(timestamp))
Min(a, b) == IF a <= b THEN a ELSE b

\* The request upload_object builds from the environ of the original
\* request and from what the driver returned.
upload_object(env, data, length, metadata, content_type, timestamp, now) ==
    LET meta == [x \in {header_name(object_meta_key(k)) :
                            k \in DOMAIN metadata} |->
                    metadata[CHOOSE k \in DOMAIN metadata :
                                header_name(object_meta_key(k)) = x]]
    IN  [method |-> "PUT",
         path |-> env.path,
         headers |-> sys_metadata(now) @@ meta
                     @@ ("X-Timestamp" :> Min(now, timestamp))
                     @@ ("Content-Length" :> length)
                     @@ ("Content-Type" :> content_type)
                     @@ env.headers,
         body |-> data,
         source |-> "DM"]

NoUpload ==
    [method |-> "", path |-> <<>>, headers |-> EmptyDict, body |-> "",
     source |-> ""]

\* What migrate_object comes to once get_object returned: the upload it
\* sends, or the error it raises.
Upload(r) == [outcome |-> "value", req |-> r, msg |-> ""]

UploadError(outcome, msg) ==
    [outcome |-> outcome, req |-> NoUpload, msg |-> msg]

no_stream_never(so) == FALSE

\* body_stream is None
no_stream(so) == so.body_stream = "None"

migrate_object(env, so, now) ==
    IF so.outcome # "value" THEN UploadError(so.outcome, so.msg)
    ELSE IF no_stream(so)
    THEN UploadError("DataMigrationError",
                     "Failed to retrieve object for migration")
    ELSE IF so.timestamp = NoTimestamp
    THEN UploadError("Exception", "float() argument must be a string or a number")
    ELSE Upload(upload_object(env, so.body_stream, so.read_length,
                              so.metadata, so.content_type, so.timestamp,
                              now))

\* status in [OK, CREATED, ACCEPTED]
upload_succeeded(status) == status \in {HTTP_OK, HTTP_CREATED, HTTP_ACCEPTED}

-----------------------------------------------------------------------------
(* The backend behind the middleware: one container and its objects        *)

\* An object as the backend keeps it.
StoredObject(headers, body) == [headers |-> headers, body |-> body]

\* The headers of a PUT that the backend keeps with the object.
ObjectHeaders(headers) ==
    Restrict(headers,
             {"Content-Type", "Content-Length", "X-Timestamp",
              "X-Object-Meta-A", "X-Object-Meta-Uid", "X-Object-Meta-Gid",
              "X-Object-Meta-User.Color",
              "X-Object-Sysmeta-Migration-Import-Time",
              "X-Object-Sysmeta-Migration-Import-Owner"})

\* The statuses the backend may answer a request with.
backend_statuses(r, stored) ==
    IF Len(r.path) = 4
    THEN CASE r.method \in {"GET", "HEAD"} ->
                IF Has(stored, r.path[4]) THEN {HTTP_OK}
                ELSE {HTTP_NOT_FOUND, HTTP_SERVICE_UNAVAILABLE}
           [] r.method = "PUT" -> {HTTP_CREATED}
           [] OTHER ->
                IF Has(stored, r.path[4]) THEN {HTTP_ACCEPTED}
                ELSE {HTTP_NOT_FOUND}
    ELSE IF Len(r.path) = 3
    THEN CASE r.method = "PUT" -> {HTTP_CREATED}
           [] OTHER -> {HTTP_NO_CONTENT, HTTP_NOT_FOUND}
    ELSE {HTTP_OK}

\* The statuses the backend may answer the upload with: stored (201, 204),
\* accepted but not stored yet (202), or refused.
UploadStatuses ==
    {HTTP_CREATED, HTTP_ACCEPTED, HTTP_NO_CONTENT, HTTP_SERVICE_UNAVAILABLE}

\* The response headers of the backend.
backend_headers(r, status, md, stored) ==
    IF ~is_success(status) THEN BackendHeaders
    ELSE IF Len(r.path) = 4 /\ r.method \in {"GET", "HEAD"}
    THEN stored[r.path[4]].headers @@ BackendHeaders
    ELSE IF Len(r.path) = 3 /\ r.method \in {"GET", "HEAD"}
    THEN [h \in {x \in SysmetaHeaderNames : Has(md, sysmeta_name(x))} |->
            md[sysmeta_name(h)]] @@ BackendHeaders
    ELSE BackendHeaders

\* The response body of the backend.
backend_body(r, status, stored) ==
    IF is_success(status) /\ Len(r.path) = 4 /\ r.method = "GET"
    THEN stored[r.path[4]].body
    ELSE ""

\* The system metadata of the container after the backend served r.
store_container(r, status, md) ==
    IF is_success(status) /\ Len(r.path) = 3 /\ r.method \in {"PUT", "POST"}
    THEN LET set == {sysmeta_name(h) :
                        h \in (DOMAIN r.headers) \cap SysmetaHeaderNames}
         IN  [k \in (DOMAIN md) \cup set |->
                IF k \in set
                THEN r.headers[CHOOSE h \in SysmetaHeaderNames :
                                    sysmeta_name(h) = k]
                ELSE md[k]]
    ELSE md

\* The objects after the backend served a PUT with the given status.
store_object(r, status, stored) ==
    IF status \in {HTTP_CREATED, HTTP_NO_CONTENT} /\ Len(r.path) = 4
       /\ r.method = "PUT"
    THEN Put(stored, r.path[4],
             StoredObject(ObjectHeaders(r.headers), r.body))
    ELSE stored

-----------------------------------------------------------------------------
(* The data migration middleware between requests                          *)

\* The per-request state of DataMigrationMiddleware between two requests.
DmReset ==
    /\ dm_pc = "idle"
    /\ dm_client = NoDmRequest
    /\ dm_req = NoDmRequest
    /\ remote_driver = NoDriver
    /\ source_object = NoSourceObject
    /\ create_obj_req = NoUpload
    /\ dm_log = <<>>
    /\ dm_response = NoResponse

\* The data migration middleware as constructed, in front of an empty
\* container.
DmIdle ==
    /\ migration_conf = Registry(TRUE, ParentPath)
    /\ middleware_conf \in RegistryConfs
    /\ migration_conf = filter_factory(middleware_conf, TRUE)
    /\ container_md = EmptyDict
    /\ objects = EmptyDict
    /\ served = 0
    /\ DmReset

\* A variant that answers every failure with 404.
failure_response_not_found(outcome, msg) ==
    HTTPNotFound("X-Migration-Status" :> msg)

\* The migration failed: the error is answered with its message in
\* X-Migration-Status (404 for a DataMigrationError, 400 for any other
\* exception).
failure_response(outcome, msg) ==
    IF outcome = "DataMigrationError"
    THEN HTTPNotFound("X-Migration-Status" :> msg)
    ELSE HTTPBadRequestWith("Bad Request", "X-Migration-Status" :> msg)

StartResponse(resp) == DmEvent("start_response", resp.status, resp.headers)

\* A variant that takes a replay answered with 404 for a further miss and
\* answers it as a failed migration.
replay_response_migrating(status, headers, body) ==
    IF status = HTTP_NOT_FOUND
    THEN failure_response("DataMigrationError",
                          "Failed to retrieve object for migration")
    ELSE Returned(status, handle_original_call(headers), body)

\* The replay goes to the application behind the middleware through a new
\* DataMigrationContext, and GETorHEAD_miss returns what it answers.
replay_response(status, headers, body) ==
    Returned(status, handle_original_call(headers), body)

\* 'X-Container-Migration-Provider' in req.headers.keys()
carries_setup_header(r) == Has(r.headers, "X-Container-Migration-Provider")

\* A variant that takes a miss of any method for a candidate.
candidate_method_any(r) == Len(r.path) = 4

\* obj and container and account and req.method in ['GET', 'HEAD']
candidate_method(r) == Len(r.path) = 4 /\ r.method \in {"GET", "HEAD"}

\* A variant that takes any status of the original call for a miss.
candidate_any_status(r, status) ==
    /\ ~carries_setup_header(r)
    /\ candidate_method(r)

\* The request is looked at for migration once its original call
\* returned.
candidate(r, status) ==
    /\ status = HTTP_NOT_FOUND
    /\ ~carries_setup_header(r)
    /\ candidate_method(r)

\* A variant that takes any migration-active entry for an active migration.
migration_active_present(md) == Has(md, "migration-active")

\* 'migration-active' in container_md and
\* config_true_value(container_md['migration-active'])
migration_active(md) ==
    /\ Has(md, "migration-active")
    /\ config_true_value(md["migration-active"])


-----------------------------------------------------------------------------
(* The copy state machine                                                  *)

\* WSGIContext before _app_call ran.
NoAppResp == [status |-> 0, headers |-> EmptyDict]

\* Threads that serve requests on one middleware instance.
MaxThreads == 2

\* The fields of the instance before a thread has read them.
NoFields == [account_name |-> "", container_name |-> "", object_name |-> ""]

\* A thread that serves no request: where it stands, its request, how many
\* of its readings and writings of the instance fields it has done, and
\* what it read.
NoThread ==
    [pc |-> "idle", client |-> NoRequest, req |-> NoRequest,
     source_path |-> <<>>, done |-> 0, self |-> NoFields,
     later |-> NoFields]

Init ==
    /\ object_post_as_copy \in BOOLEAN
    /\ account_name = ""
    /\ container_name = ""
    /\ object_name = ""
    /\ pc = "idle"
    /\ client = NoRequest
    /\ req = NoRequest
    /\ source_path = <<>>
    /\ source_req = NoRequest
    /\ source_resp = NoSourceResp
    /\ sink_req = NoRequest
    /\ resp_headers = EmptyDict
    /\ subreqs = <<>>
    /\ app_resp = NoAppResp
    /\ response = NoResponse
    /\ threads = [t \in 1..MaxThreads |-> NoThread]
    /\ DmIdle

\* A client request enters ServerSideCopyMiddleware.__call__, which runs up
\* to its first downstream call or to its response.
Call ==
    /\ pc = "idle"
    /\ \E r \in Requests :
        LET out == call(r, [account_name |-> account_name,
                            container_name |-> container_name,
                            object_name |-> object_name],
                        object_post_as_copy)
            sreq == get_source_req(out.req, out.source_path)
        IN  /\ client' = r
            /\ req' = out.req
            /\ account_name' = out.self.account_name
            /\ container_name' = out.self.container_name
            /\ object_name' = out.self.object_name
            /\ source_path' = out.source_path
            /\ response' = out.response
            /\ pc' = out.pc
            /\ source_req' = IF out.pc = "fetch" THEN sreq ELSE NoRequest
            /\ subreqs' =
                 CASE out.pc = "fetch" -> <<FetchCall(sreq)>>
                   [] out.pc \in {"app", "options"} ->
                        <<Event("call", out.pc, out.req.method, out.req.path,
                                0)>>
                   [] OTHER -> <<>>
    /\ UNCHANGED <<object_post_as_copy, source_resp, sink_req, resp_headers,
                   app_resp>>
    /\ UNCHANGED <<dm_vars, threads>>

\* The source fetch returns; CopyHelper.copy goes on to the sink PUT or
\* answers the client.
SourceResponse ==
    /\ pc = "fetch"
    /\ \E hooked \in SourceResponses :
        LET resp == get_source_object(hooked)
            sink == make_sink_req(req, resp)
            fetched == Append(subreqs, Event("return", "fetch",
                                             source_req.method,
                                             unquote_path(source_req.path),
                                             hooked.status))
        IN  /\ source_resp' = hooked
            /\ IF source_failed(resp)
               THEN /\ response' = Returned(resp.status, resp.headers,
                                            resp.body)
                    /\ pc' = "done"
                    /\ subreqs' = fetched
                    /\ UNCHANGED <<sink_req, resp_headers>>
               ELSE /\ sink_req' = sink
                    /\ resp_headers' =
                         create_response_headers(source_path, resp, sink)
                    /\ subreqs' = Append(fetched,
                                         Event("call", "put", sink.method,
                                               sink.path, 0))
                    /\ pc' = "put"
                    /\ UNCHANGED response
    /\ UNCHANGED <<object_post_as_copy, account_name, container_name,
                   object_name, client, req, source_path, source_req,
                   app_resp>>
    /\ UNCHANGED <<dm_vars, threads>>

\* The sink PUT returns; send_put_req adjusts and delivers the response.
PutResponse ==
    /\ pc = "put"
    /\ \E status \in BackendStatuses :
        /\ response' =
             [kind |-> "returned",
              status |-> adjust_put_status(
                             status, sink_req.environ.orig_req_method),
              headers |-> BackendHeaders,
              added |-> adjust_put_headers(status, resp_headers),
              body |-> "put-body"]
        /\ subreqs' = Append(subreqs, Event("return", "put", sink_req.method,
                                            sink_req.path, status))
        /\ app_resp' = [status |-> status, headers |-> BackendHeaders]
    /\ pc' = "done"
    /\ UNCHANGED <<object_post_as_copy, account_name, container_name,
                   object_name, client, req, source_path, source_req,
                   source_resp, sink_req, resp_headers>>
    /\ UNCHANGED <<dm_vars, threads>>

\* A request passed through to the application returns.
AppResponse ==
    /\ pc = "app"
    /\ \E status \in BackendStatuses :
        /\ response' = Returned(status, BackendHeaders, "app-body")
        /\ subreqs' = Append(subreqs, Event("return", "app", req.method,
                                            req.path, status))
    /\ pc' = "done"
    /\ UNCHANGED <<object_post_as_copy, account_name, container_name,
                   object_name, client, req, source_path, source_req,
                   source_resp, sink_req, resp_headers, app_resp>>
    /\ UNCHANGED <<dm_vars, threads>>

\* The downstream OPTIONS call returns; handle_OPTIONS_request augments it.
OptionsResponse ==
    /\ pc = "options"
    /\ \E status \in {200, 404}, headers \in OptionsHeaders :
        /\ response' = Returned(status, options_headers(status, headers),
                                "options-body")
        /\ subreqs' = Append(subreqs, Event("return", "options", req.method,
                                            req.path, status))
        /\ app_resp' = [status |-> status, headers |-> headers]
    /\ pc' = "done"
    /\ UNCHANGED <<object_post_as_copy, account_name, container_name,
                   object_name, client, req, source_path, source_req,
                   source_resp, sink_req, resp_headers>>
    /\ UNCHANGED <<dm_vars, threads>>

\* The response is delivered; the middleware instance takes the next
\* request.
Finish ==
    /\ pc = "done"
    /\ pc' = "idle"
    /\ client' = NoRequest
    /\ req' = NoRequest
    /\ source_path' = <<>>
    /\ source_req' = NoRequest
    /\ source_resp' = NoSourceResp
    /\ sink_req' = NoRequest
    /\ resp_headers' = EmptyDict
    /\ subreqs' = <<>>
    /\ app_resp' = NoAppResp
    /\ response' = NoResponse
    /\ UNCHANGED <<object_post_as_copy, account_name, container_name,
                   object_name>>
    /\ UNCHANGED <<dm_vars, threads>>

Next ==
    \/ Call
    \/ SourceResponse
    \/ PutResponse
    \/ AppResponse
    \/ OptionsResponse
    \/ Finish

Spec == Init /\ [][Next]_vars

-----------------------------------------------------------------------------
(* The data migration state machine: actions                               *)

DmInit ==
    /\ object_post_as_copy = TRUE
    /\ account_name = ""
    /\ container_name = ""
    /\ object_name = ""
    /\ pc = "idle"
    /\ client = NoRequest
    /\ req = NoRequest
    /\ source_path = <<>>
    /\ source_req = NoRequest
    /\ source_resp = NoSourceResp
    /\ sink_req = NoRequest
    /\ resp_headers = EmptyDict
    /\ subreqs = <<>>
    /\ app_resp = NoAppResp
    /\ response = NoResponse
    /\ threads = [t \in 1..MaxThreads |-> NoThread]
    /\ migration_conf \in Registries
    /\ middleware_conf \in RegistryConfs
    /\ \E swiftclient \in BOOLEAN :
            migration_conf = filter_factory(middleware_conf, swiftclient)
    /\ container_md = EmptyDict
    /\ objects = EmptyDict
    /\ served = 0
    /\ DmReset

\* A client request enters DataMigrationMiddleware.__call__, which
\* validates a migration setup and forwards the request.
DmCall ==
    /\ dm_pc = "idle"
    /\ served < MaxRequests
    /\ \E r \in DmRequests :
        LET out == dm_call(r, migration_conf)
        IN  /\ dm_client' = r
            /\ dm_req' = out.req
            /\ IF out.response.kind # "none"
               THEN /\ dm_response' = out.response
                    /\ dm_log' = <<StartResponse(out.response)>>
                    /\ dm_pc' = "done"
               ELSE /\ dm_response' = NoResponse
                    /\ dm_log' = <<DmEvent("call", 0, EmptyDict)>>
                    /\ dm_pc' = IF split_path_ok(r.path, 3) THEN "original"
                                ELSE "app"
    /\ served' = served + 1
    /\ UNCHANGED <<middleware_conf, migration_conf, container_md, objects,
                   remote_driver,
                   source_object, create_obj_req>>
    /\ UNCHANGED <<copy_vars, threads>>

\* self.app(env, start_response) of a path that does not split returns.
DmAppResponse ==
    /\ dm_pc = "app"
    /\ \E status \in backend_statuses(dm_req, objects) :
        LET resp == Returned(status,
                             backend_headers(dm_req, status, container_md,
                                             objects),
                             backend_body(dm_req, status, objects))
        IN  /\ dm_response' = resp
            /\ dm_log' = dm_log \o <<DmEvent("return", status, resp.headers),
                                     StartResponse(resp)>>
    /\ dm_pc' = "done"
    /\ UNCHANGED <<middleware_conf, migration_conf, container_md, objects,
                   dm_client, dm_req,
                   remote_driver, source_object, create_obj_req, served>>
    /\ UNCHANGED <<copy_vars, threads>>

\* The original call returns: handle_original_call starts the response,
\* and on a candidate miss __call__ looks the container up and resolves
\* the driver, up to the call of its get_object.
OriginalResponse ==
    /\ dm_pc = "original"
    /\ \E status \in backend_statuses(dm_req, objects) :
        LET down == backend_headers(dm_req, status, container_md, objects)
            md == store_container(dm_req, status, container_md)
            resp == Returned(status, handle_original_call(down),
                             backend_body(dm_req, status, objects))
            original == dm_log \o <<DmEvent("return", status, down),
                                    StartResponse(resp)>>
            looked == Append(original, DmEvent("get_container_info", 0, md))
            resolved == remote_driver_resolver(md, migration_conf)
            failed == failure_response(resolved.outcome, resolved.msg)
        IN  /\ container_md' = md
            /\ objects' = store_object(dm_req, status, objects)
            /\ IF ~candidate(dm_req, status)
               THEN /\ dm_response' = resp
                    /\ dm_log' = original
                    /\ dm_pc' = "done"
                    /\ UNCHANGED remote_driver
               ELSE IF ~migration_active(md)
               THEN /\ dm_response' = resp
                    /\ dm_log' = looked
                    /\ dm_pc' = "done"
                    /\ UNCHANGED remote_driver
               ELSE IF resolved.outcome # "value"
               THEN /\ dm_response' = failed
                    /\ dm_log' = looked \o
                          <<DmEvent("remote_driver_resolver", 0, EmptyDict),
                            StartResponse(failed)>>
                    /\ dm_pc' = "done"
                    /\ UNCHANGED remote_driver
               ELSE /\ dm_response' = resp
                    /\ dm_log' = looked \o
                          <<DmEvent("remote_driver_resolver", 0, EmptyDict),
                            DmEvent("get_object", 0, EmptyDict)>>
                    /\ dm_pc' = "get_object"
                    /\ remote_driver' = resolved.value
    /\ UNCHANGED <<middleware_conf, migration_conf, dm_client, dm_req,
                   source_object, create_obj_req, served>>
    /\ UNCHANGED <<copy_vars, threads>>

\* The driver's get_object returns; migrate_object raises or sends the
\* upload built by upload_object.
GetObjectReturn ==
    /\ dm_pc = "get_object"
    /\ \E so \in get_object(remote_driver), now \in Clock :
        LET out == migrate_object(dm_req, so, now)
            failed == failure_response(out.outcome, out.msg)
            got == Append(dm_log, DmEvent("get_object_return", 0,
                                          EmptyDict))
        IN  /\ source_object' = so
            /\ IF out.outcome # "value"
               THEN /\ dm_response' = failed
                    /\ dm_log' = Append(got, StartResponse(failed))
                    /\ dm_pc' = "done"
                    /\ UNCHANGED create_obj_req
               ELSE /\ create_obj_req' = out.req
                    /\ dm_log' = Append(got, DmEvent("upload", 0,
                                                     out.req.headers))
                    /\ dm_pc' = "upload"
                    /\ UNCHANGED dm_response
    /\ UNCHANGED <<middleware_conf, migration_conf, container_md, objects,
                   dm_client, dm_req,
                   remote_driver, served>>
    /\ UNCHANGED <<copy_vars, threads>>

\* A replay of the request: the call of handle_original_call on an
\* environ, with its method, path and headers.
ReplayEvent(env) ==
    [step |-> "replay", status |-> 0, headers |-> env.headers,
     method |-> env.method, path |-> env.path]

\* A variant that replays the environ upload_object has rewritten.
orig_env_rewritten(original_env) == [original_env EXCEPT !.method = "PUT"]

\* orig_env = dict(original_env): the copy GETorHEAD_miss takes of the
\* original environ before the migration and replays after it.
orig_env(original_env) == original_env

\* The upload returns: the driver is finalized, and GETorHEAD_miss replays
\* the original request or raises.
UploadResponse ==
    /\ dm_pc = "upload"
    /\ \E status \in UploadStatuses :
        LET failed == failure_response("DataMigrationError",
                                       "Failed to create local object")
            uploaded == dm_log \o
                <<DmEvent("upload_return", status, EmptyDict),
                  DmEvent("finalize", 0, EmptyDict)>>
        IN  /\ objects' = store_object(create_obj_req, status, objects)
            /\ IF upload_succeeded(status)
               THEN /\ dm_log' = Append(uploaded,
                                        ReplayEvent(orig_env(dm_req)))
                    /\ dm_pc' = "replay"
                    /\ UNCHANGED dm_response
               ELSE /\ dm_response' = failed
                    /\ dm_log' = Append(uploaded, StartResponse(failed))
                    /\ dm_pc' = "done"
    /\ UNCHANGED <<middleware_conf, migration_conf, container_md, dm_client,
                   dm_req,
                   remote_driver, source_object, create_obj_req, served>>
    /\ UNCHANGED <<copy_vars, threads>>

\* The replay of the original request returns; its response is started
\* and returned.
ReplayResponse ==
    /\ dm_pc = "replay"
    /\ \E status \in backend_statuses(dm_req, objects) :
        LET down == backend_headers(dm_req, status, container_md, objects)
            resp == replay_response(status, down,
                                    backend_body(dm_req, status, objects))
        IN  /\ dm_response' = resp
            /\ dm_log' = dm_log \o <<DmEvent("replay_return", status, down),
                                     StartResponse(resp)>>
    /\ dm_pc' = "done"
    /\ UNCHANGED <<middleware_conf, migration_conf, container_md, objects,
                   dm_client, dm_req,
                   remote_driver, source_object, create_obj_req, served>>
    /\ UNCHANGED <<copy_vars, threads>>

\* The response is delivered; the middleware takes the next request.
DmFinish ==
    /\ dm_pc = "done"
    /\ dm_pc' = "idle"
    /\ dm_client' = NoDmRequest
    /\ dm_req' = NoDmRequest
    /\ remote_driver' = NoDriver
    /\ source_object' = NoSourceObject
    /\ create_obj_req' = NoUpload
    /\ dm_log' = <<>>
    /\ dm_response' = NoResponse
    /\ UNCHANGED <<middleware_conf, migration_conf, container_md, objects,
                   served>>
    /\ UNCHANGED <<copy_vars, threads>>

DmNext ==
    \/ DmCall
    \/ DmAppResponse
    \/ OriginalResponse
    \/ GetObjectReturn
    \/ UploadResponse
    \/ ReplayResponse
    \/ DmFinish

DmSpec == DmInit /\ [][DmNext]_vars

-----------------------------------------------------------------------------
(* Driver resolution on its own                                            *)

\* Container system metadata as get_container_info may return it for a
\* container that was set up for migration at some time, under this
\* configuration or another: any provider, any source, and none, some or
\* all of the keys of the swift provider.
ContainerMetadata ==
    {p @@ s @@ k @@ ("migration-active" :> "True") :
        p \in Opt("migration-provider",
                  {"fsystem", "swift", "Swift", "bogus"}),
        s \in Opt("migration-source", {"dir", "Dir", ".."}),
        k \in {EmptyDict,
               ("migration-token-url" :> "http://old/auth")
                  @@ ("migration-user" :> "test:tester"),
               ("migration-token-url" :> "http://old/auth")
                  @@ ("migration-user" :> "test:tester")
                  @@ ("migration-key" :> "testing")}}

\* The middleware as constructed, in front of a container with migration
\* metadata, at the point where a missing object is to be migrated.
ResolverInit ==
    /\ object_post_as_copy = TRUE
    /\ account_name = ""
    /\ container_name = ""
    /\ object_name = ""
    /\ pc = "idle"
    /\ client = NoRequest
    /\ req = NoRequest
    /\ source_path = <<>>
    /\ source_req = NoRequest
    /\ source_resp = NoSourceResp
    /\ sink_req = NoRequest
    /\ resp_headers = EmptyDict
    /\ subreqs = <<>>
    /\ app_resp = NoAppResp
    /\ response = NoResponse
    /\ threads = [t \in 1..MaxThreads |-> NoThread]
    /\ migration_conf \in Registries
    /\ middleware_conf \in RegistryConfs
    /\ \E swiftclient \in BOOLEAN :
            migration_conf = filter_factory(middleware_conf, swiftclient)
    /\ container_md \in ContainerMetadata
    /\ objects = EmptyDict
    /\ served = 0
    /\ DmReset

\* GETorHEAD_miss calls remote_driver_resolver on the container metadata;
\* __call__ answers the error it raises.
Resolve ==
    /\ dm_pc = "idle"
    /\ LET resolved == remote_driver_resolver(container_md, migration_conf)
       IN  /\ remote_driver' = resolved.value
           /\ dm_log' = <<DmEvent("remote_driver_resolver", 0, EmptyDict)>>
           /\ IF resolved.outcome = "value"
              THEN /\ dm_pc' = "get_object"
                   /\ dm_response' = NoResponse
              ELSE /\ dm_pc' = "done"
                   /\ dm_response' =
                         failure_response(resolved.outcome, resolved.msg)
    /\ UNCHANGED <<middleware_conf, migration_conf, container_md, objects,
                   dm_client, dm_req,
                   source_object, create_obj_req, served>>
    /\ UNCHANGED <<copy_vars, threads>>

ResolverSpec == ResolverInit /\ [][Resolve]_vars

-----------------------------------------------------------------------------
(* Several requests in flight on one ServerSideCopyMiddleware              *)

\* Copy requests on objects: COPY within the account and across accounts,
\* POST, and PUT with X-Copy-From.
ConcRequests ==
    {ClientRequest(mh[1], p, ("Content-Length" :> 0) @@ mh[2], "") :
        p \in {<<"v1", "a", "c", "o">>},
        mh \in {<<"COPY", "Destination" :> <<"c2", "o%20p">>>>,
                <<"COPY", ("Destination" :> <<"c2", "o%20p">>)
                             @@ ("Destination-Account" :> "a2")>>,
                <<"POST", EmptyDict>>,
                <<"PUT", "X-Copy-From" :> <<"c3", "o%20p">>>>}}

ConcInit ==
    /\ object_post_as_copy \in BOOLEAN
    /\ account_name = ""
    /\ container_name = ""
    /\ object_name = ""
    /\ pc = "idle"
    /\ client = NoRequest
    /\ req = NoRequest
    /\ source_path = <<>>
    /\ source_req = NoRequest
    /\ source_resp = NoSourceResp
    /\ sink_req = NoRequest
    /\ resp_headers = EmptyDict
    /\ subreqs = <<>>
    /\ app_resp = NoAppResp
    /\ response = NoResponse
    /\ threads = [t \in 1..MaxThreads |-> NoThread]
    /\ DmIdle

\* One reading or writing of a field of the instance: store writes the
\* field of the path, read reads into self, reread into later, write
\* writes what the handler assigns.
Access(op, field) == [op |-> op, field |-> field]

\* The readings and writings of the instance fields that a request does
\* after __call__ stored the account of its path, in the order of the code;
\* a thread can be preempted between any two of them.
accesses(r, post_as_copy) ==
    LET stores == <<Access("store", "container_name"),
                    Access("store", "object_name")>>
        cross == Has(r.headers, "Destination-Account")
        moved == IF cross
                 THEN [r EXCEPT !.headers = Pop(@, "Destination-Account")]
                 ELSE r
    IN  IF r.method = "COPY" /\ ~missing_destination(r)
        THEN IF cross
                /\ ~check_account_format_ok(r.headers["Destination-Account"])
             THEN stores
             ELSE stores
                  \o <<Access("read", "account_name")>>
                  \o (IF cross THEN <<Access("write", "account_name")>>
                      ELSE <<>>)
                  \o (IF check_destination_header(moved).ok
                      THEN <<Access("read", "container_name"),
                             Access("read", "object_name"),
                             Access("write", "container_name"),
                             Access("write", "object_name")>>
                      ELSE <<>>)
        ELSE IF r.method = "POST" /\ post_as_copy
        THEN stores \o <<Access("read", "account_name"),
                         Access("read", "container_name"),
                         Access("read", "object_name"),
                         Access("reread", "container_name"),
                         Access("reread", "object_name")>>
        ELSE stores

\* The value of the field of the instance.
field_value(field) ==
    CASE field = "account_name" -> account_name
      [] field = "container_name" -> container_name
      [] field = "object_name" -> object_name

\* A thread enters __call__ with a request on an object and stores the
\* account of its path in the instance.
ConcEnter(t) ==
    /\ threads[t].pc = "idle"
    /\ \E r \in ConcRequests :
        /\ account_name' = path_fields(r).account_name
        /\ threads' = [threads EXCEPT ![t] =
                          [NoThread EXCEPT !.pc = "entered", !.client = r,
                                           !.req = r]]
    /\ UNCHANGED <<object_post_as_copy, container_name, object_name, pc,
                   client, req, source_path, source_req, source_resp,
                   sink_req, resp_headers, subreqs, app_resp, response>>
    /\ UNCHANGED dm_vars

\* The thread does its next reading or writing of a field of the instance:
\* it stores a field of its path, reads a field as it is now, or writes
\* what its handler assigns.
ConcAccess(t) ==
    /\ threads[t].pc = "entered"
    /\ threads[t].done < Len(accesses(threads[t].client,
                                      object_post_as_copy))
    /\ LET th == threads[t]
           a == accesses(th.client, object_post_as_copy)[th.done + 1]
           written ==
               IF a.op = "store" THEN path_fields(th.client)[a.field]
               ELSE dispatch(th.client, th.self, th.later,
                             object_post_as_copy).self[a.field]
           writes == a.op \in {"store", "write"}
       IN  /\ account_name' =
                 IF writes /\ a.field = "account_name" THEN written
                 ELSE account_name
           /\ container_name' =
                 IF writes /\ a.field = "container_name" THEN written
                 ELSE container_name
           /\ object_name' =
                 IF writes /\ a.field = "object_name" THEN written
                 ELSE object_name
           /\ threads' = [threads EXCEPT ![t] =
                 [th EXCEPT
                    !.done = @ + 1,
                    !.self = IF a.op = "read"
                             THEN [@ EXCEPT ![a.field] = field_value(a.field)]
                             ELSE @,
                    !.later = IF a.op = "reread"
                              THEN [@ EXCEPT ![a.field] =
                                        field_value(a.field)]
                              ELSE @]]
    /\ UNCHANGED <<object_post_as_copy, pc, client, req, source_path,
                   source_req, source_resp, sink_req, resp_headers, subreqs,
                   app_resp, response>>
    /\ UNCHANGED dm_vars

\* The handler of the thread has read and written the fields: it leaves
\* the request rewritten from what it read, and the source path, for
\* CopyHelper.copy.
ConcDispatch(t) ==
    /\ threads[t].pc = "entered"
    /\ threads[t].done = Len(accesses(threads[t].client,
                                      object_post_as_copy))
    /\ LET out == dispatch(threads[t].client, threads[t].self,
                           threads[t].later, object_post_as_copy)
       IN  threads' = [threads EXCEPT ![t] =
                          [@ EXCEPT !.pc = "dispatched", !.req = out.req,
                                    !.source_path = out.source_path]]
    /\ UNCHANGED copy_vars
    /\ UNCHANGED dm_vars

\* The request of the thread is answered.
ConcFinish(t) ==
    /\ threads[t].pc = "dispatched"
    /\ threads' = [threads EXCEPT ![t] = NoThread]
    /\ UNCHANGED copy_vars
    /\ UNCHANGED dm_vars

ConcNext ==
    \E t \in 1..MaxThreads :
        ConcEnter(t) \/ ConcAccess(t) \/ ConcDispatch(t) \/ ConcFinish(t)

ConcSpec == ConcInit /\ [][ConcNext]_vars

-----------------------------------------------------------------------------
(* The construction of the registry on its own                             *)

\* The proxy server read a configuration; filter_factory has not been
\* called yet.
FactoryInit ==
    /\ object_post_as_copy = TRUE
    /\ account_name = ""
    /\ container_name = ""
    /\ object_name = ""
    /\ pc = "idle"
    /\ client = NoRequest
    /\ req = NoRequest
    /\ source_path = <<>>
    /\ source_req = NoRequest
    /\ source_resp = NoSourceResp
    /\ sink_req = NoRequest
    /\ resp_headers = EmptyDict
    /\ subreqs = <<>>
    /\ app_resp = NoAppResp
    /\ response = NoResponse
    /\ threads = [t \in 1..MaxThreads |-> NoThread]
    /\ middleware_conf \in Configurations
    /\ migration_conf = EmptyDict
    /\ container_md = EmptyDict
    /\ objects = EmptyDict
    /\ served = 0
    /\ DmReset

\* filter_factory builds migration_conf from the configuration, on a host
\* with or without swiftclient.
Construct ==
    /\ dm_pc = "idle"
    /\ dm_log = <<>>
    /\ \E swiftclient \in BOOLEAN :
            migration_conf' = filter_factory(middleware_conf, swiftclient)
    /\ dm_log' = <<DmEvent("filter_factory", 0, EmptyDict)>>
    /\ UNCHANGED <<middleware_conf, container_md, objects, dm_pc, dm_client,
                   dm_req, remote_driver, source_object, create_obj_req,
                   dm_response, served>>
    /\ UNCHANGED <<copy_vars, threads>>

FactorySpec == FactoryInit /\ [][Construct]_vars

-----------------------------------------------------------------------------
(* Properties                                                              *)

\* The client request is on an object path (version/account/container/obj).
OnObject == Len(client.path) = 4

\* The client request is in flight or answered.
Entered == pc # "idle"

\* The source fetch of the current request has returned.
Fetched == source_resp # NoSourceResp

\* Positions in subreqs of the events of one kind.
Events(ev, kind) ==
    {i \in 1..Len(subreqs) : subreqs[i].ev = ev /\ subreqs[i].kind = kind}

NoSinkPut == Events("call", "put") = {}

\* The client sent a non-zero Content-Length.
NonZeroBody ==
    Has(client.headers, "Content-Length") /\ client.headers["Content-Length"] # 0

\* C1: every copy request (a COPY, or a PUT with X-Copy-From) that carries
\* a nonzero Content-Length is answered with 400 and issues neither the
\* source fetch nor the sink PUT.  Stated for copy requests that are well
\* formed otherwise: a COPY names a destination container/object and an
\* account, a PUT a source container/object.
C1_ZeroBody ==
    LET copy_put == /\ client.method = "PUT"
                    /\ Truthy(client.headers, "X-Copy-From")
        copy == /\ client.method = "COPY"
                /\ Truthy(client.headers, "Destination")
                /\ Len(client.headers["Destination"]) = 2
                /\ Has(client.headers, "Destination-Account")
                       => client.headers["Destination-Account"] # ""
    IN  (Entered /\ OnObject /\ NonZeroBody /\ (copy_put \/ copy))
            => /\ pc = "done"
               /\ response.kind = "returned"
               /\ response.status = HTTP_BAD_REQUEST
               /\ subreqs = <<>>

\* C2: a source response (after the copy hook) of unknown length or of a
\* length above MAX_FILE_SIZE is answered with 413 and no sink PUT is
\* issued; a successful source of exactly MAX_FILE_SIZE bytes is copied:
\* the sink PUT is issued with that length.
C2_SizeLimit ==
    Fetched =>
        /\ (\/ source_resp.content_length = NoLength
            \/ source_resp.content_length > MAX_FILE_SIZE)
              => /\ pc = "done"
                 /\ response.kind = "returned"
                 /\ response.status = HTTP_REQUEST_ENTITY_TOO_LARGE
                 /\ NoSinkPut
        /\ (/\ source_resp.content_length = MAX_FILE_SIZE
            /\ is_success(source_resp.status))
              => /\ pc \in {"put", "done"}
                 /\ Events("call", "put") # {}
                 /\ sink_req.headers["Content-Length"] = MAX_FILE_SIZE

\* C2 witness: a successful source one byte above the maximum was refused.
C2_Witness ==
    /\ pc = "done"
    /\ Fetched
    /\ source_resp.status = 200
    /\ source_resp.content_length = MAX_FILE_SIZE + 1
    /\ response.status = HTTP_REQUEST_ENTITY_TOO_LARGE

\* The client received the source response as it is.
SourcePropagated ==
    /\ pc = "done"
    /\ response.kind = "returned"
    /\ response.status = source_resp.status
    /\ response.headers = source_resp.headers
    /\ response.added = EmptyDict
    /\ response.body = source_resp.body
    /\ NoSinkPut

\* C3 as claimed: every source response whose status is not 2xx is returned
\* to the client unchanged and no sink PUT is issued, whatever its content
\* length.
C3_AnySourceFailurePropagated ==
    (Fetched /\ ~is_success(source_resp.status)) => SourcePropagated

\* C3: a source response whose status is not 2xx and whose content length
\* is known and not above MAX_FILE_SIZE is returned to the client unchanged
\* and no sink PUT is issued; with an unknown or larger content length it
\* is answered with 413, again without a sink PUT.
C3_SourceFailurePropagated ==
    (Fetched /\ ~is_success(source_resp.status)) =>
        IF /\ source_resp.content_length # NoLength
           /\ source_resp.content_length <= MAX_FILE_SIZE
        THEN SourcePropagated
        ELSE /\ pc = "done"
             /\ response.status = HTTP_REQUEST_ENTITY_TOO_LARGE
             /\ NoSinkPut

\* C3 witness: a 404 of the source reached the client.
C3_Witness ==
    /\ Fetched
    /\ source_resp.status = 404
    /\ source_resp.content_length = 0
    /\ SourcePropagated

\* The sink PUT of the current request has been built.
SinkBuilt == sink_req # NoRequest

MetaKeys == SysMetaKeys \cup UserMetaKeys

\* The client asked for fresh metadata.
FreshMetadata ==
    /\ Has(client.headers, "X-Fresh-Metadata")
    /\ config_true_value(client.headers["X-Fresh-Metadata"])

\* C4: in normal mode (no fresh-metadata flag, not post-as-copy) the
\* metadata headers of the sink PUT are those of the source overlaid with
\* those of the client: every metadata header of the client is on the sink
\* with the client's value, every metadata header of the source that the
\* client did not supply is on the sink with the source's value, and the
\* sink has no other metadata header.
C4_NormalModePrecedence ==
    (SinkBuilt /\ ~FreshMetadata /\ ~req.environ.post_as_copy) =>
        /\ \A k \in MetaKeys \cap DOMAIN client.headers :
              Has(sink_req.headers, k)
                  /\ sink_req.headers[k] = client.headers[k]
        /\ \A k \in (MetaKeys \cap DOMAIN source_resp.headers)
                        \ DOMAIN client.headers :
              Has(sink_req.headers, k)
                  /\ sink_req.headers[k] = source_resp.headers[k]
        /\ MetaKeys \cap DOMAIN sink_req.headers
              \subseteq (DOMAIN client.headers) \cup (DOMAIN source_resp.headers)

\* C4 witness: source {a:1} and client {a:2, b:3} gave {a:2, b:3}.
C4_Witness ==
    /\ SinkBuilt
    /\ ~FreshMetadata
    /\ ~req.environ.post_as_copy
    /\ Restrict(source_resp.headers, MetaKeys) = ("X-Object-Meta-A" :> "1")
    /\ Restrict(client.headers, MetaKeys)
          = ("X-Object-Meta-A" :> "2") @@ ("X-Object-Meta-B" :> "3")
    /\ Restrict(sink_req.headers, MetaKeys)
          = ("X-Object-Meta-A" :> "2") @@ ("X-Object-Meta-B" :> "3")

\* C5 as claimed: in fresh-metadata mode the metadata of the sink PUT is
\* the system metadata of the source and nothing else; no metadata header
\* of the client is on the sink.
C5_FreshOnlySourceSysmeta ==
    (SinkBuilt /\ FreshMetadata) =>
        Restrict(sink_req.headers, MetaKeys)
            = Restrict(source_resp.headers, SysMetaKeys)

\* C5: in fresh-metadata mode the system metadata of the sink PUT is that
\* of the source (the client's system metadata headers are dropped) and its
\* user metadata is that of the client (the source's user metadata is not
\* copied).
C5_FreshMetadata ==
    (SinkBuilt /\ FreshMetadata) =>
        /\ Restrict(sink_req.headers, SysMetaKeys)
              = Restrict(source_resp.headers, SysMetaKeys)
        /\ Restrict(sink_req.headers, UserMetaKeys)
              = Restrict(client.headers, UserMetaKeys)

\* C5 witness: a fresh-metadata copy whose client supplied system metadata
\* that the source does not have, and user metadata that the source has
\* with another value.
C5_Witness ==
    /\ SinkBuilt
    /\ FreshMetadata
    /\ Has(client.headers, "X-Object-Sysmeta-S")
    /\ ~Has(source_resp.headers, "X-Object-Sysmeta-S")
    /\ Has(source_resp.headers, "X-Object-Sysmeta-T")
    /\ client.headers["X-Object-Meta-A"] = "2"
    /\ source_resp.headers["X-Object-Meta-A"] = "1"
    /\ ~Has(sink_req.headers, "X-Object-Sysmeta-S")

\* The status the backend gave the sink PUT (0 while it has not returned).
PutStatus ==
    IF Events("return", "put") = {} THEN 0
    ELSE subreqs[CHOOSE i \in Events("return", "put") : TRUE].status

\* C6: when the sink PUT has returned, the client sees 202 if the backend
\* said 201 and the client's method was POST, 201 if the backend said 201
\* and the client's method was PUT or COPY, and the backend's status if it
\* is not 201, whatever the method.
C6_StatusTranslation ==
    (pc = "done" /\ PutStatus # 0) =>
        /\ (PutStatus = HTTP_CREATED /\ client.method = "POST")
              => response.status = HTTP_ACCEPTED
        /\ (PutStatus = HTTP_CREATED /\ client.method \in {"PUT", "COPY"})
              => response.status = HTTP_CREATED
        /\ PutStatus # HTTP_CREATED => response.status = PutStatus

\* C6 witness: a POST whose sink PUT returned 201 was answered with 202.
C6_Witness ==
    /\ pc = "done"
    /\ client.method = "POST"
    /\ PutStatus = HTTP_CREATED
    /\ response.status = HTTP_ACCEPTED

\* The kinds and directions of the downstream calls so far.
Trace == [i \in 1..Len(subreqs) |-> <<subreqs[i].ev, subreqs[i].kind>>]

\* A copy operation is under way or over: CopyHelper.copy was entered.
Copying == source_req # NoRequest

\* C7: a copy operation issues exactly one source fetch and then at most
\* one sink PUT: the PUT is issued only after the fetch has returned,
\* neither is repeated, a copy that succeeds has issued one of each, and a
\* fetch that fails (a status that is not 2xx, an unknown or oversized
\* length) ends the operation without a PUT.
C7_OneFetchThenOnePut ==
    Copying =>
        /\ pc = "fetch" => Trace = <<(<<"call", "fetch">>)>>
        /\ pc = "put" => Trace = <<(<<"call", "fetch">>),
                                   (<<"return", "fetch">>),
                                   (<<"call", "put">>)>>
        /\ pc = "done" =>
              IF \/ ~is_success(source_resp.status)
                 \/ source_resp.content_length = NoLength
                 \/ source_resp.content_length > MAX_FILE_SIZE
              THEN Trace = <<(<<"call", "fetch">>), (<<"return", "fetch">>)>>
              ELSE Trace = <<(<<"call", "fetch">>), (<<"return", "fetch">>),
                             (<<"call", "put">>), (<<"return", "put">>)>>
        /\ pc \in {"fetch", "put", "done"}
        /\ Cardinality(Events("call", "fetch")) = 1
        /\ Cardinality(Events("call", "put")) <= 1

\* C7 witness: a copy that succeeded, with one fetch and one PUT.
C7_Witness ==
    /\ pc = "done"
    /\ Copying
    /\ Len(subreqs) = 4
    /\ response.status = HTTP_CREATED

\* C8: a COPY on an object path without a non-empty Destination header is
\* answered with 412; the request is not rewritten and nothing is called
\* downstream (no fetch, no PUT, no passing on).
C8_CopyWithoutDestination ==
    (/\ Entered
     /\ OnObject
     /\ client.method = "COPY"
     /\ ~Truthy(client.headers, "Destination"))
        => /\ pc = "done"
           /\ response.kind = "returned"
           /\ response.status = HTTP_PRECONDITION_FAILED
           /\ subreqs = <<>>
           /\ ~Copying
           /\ req.method = client.method
           /\ req.path = client.path
           /\ req.headers = client.headers

\* C8 witness: a COPY with an empty Destination and a Destination-Account
\* was answered with 412.
C8_Witness ==
    /\ pc = "done"
    /\ OnObject
    /\ client.method = "COPY"
    /\ Has(client.headers, "Destination")
    /\ client.headers["Destination"] = <<>>
    /\ Has(client.headers, "Destination-Account")
    /\ response.status = HTTP_PRECONDITION_FAILED

\* C9: a COPY of /<version>/<acct>/<c>/<o> with Destination <c2>/<o2> and
\* an optional Destination-Account <a2> fetches the original object
\* <acct>/<c>/<o> under the version of the request, and is rewritten to a
\* PUT on (<a2> or <acct>)/<c2>/<o2> with Content-Length 0 and without the
\* Destination and Destination-Account headers; the source account is the
\* original account.  Stated for a COPY that carries no X-Copy-From-Account
\* of its own.
C9_CopyNormalisation ==
    (/\ Copying
     /\ client.method = "COPY"
     /\ ~Has(client.headers, "X-Copy-From-Account"))
        => LET dest == unquote_path(client.headers["Destination"])
               dest_account ==
                   IF Has(client.headers, "Destination-Account")
                   THEN client.headers["Destination-Account"]
                   ELSE client.path[2]
           IN  /\ subreqs[1] = Event("call", "fetch", "GET", client.path, 0)
               /\ source_path[2] = client.path[2]
               /\ req.method = "PUT"
               /\ SubSeq(req.path, 2, 4)
                     = <<dest_account, dest[1], dest[2]>>
               /\ req.headers["Content-Length"] = 0
               /\ ~Has(req.headers, "Destination")
               /\ ~Has(req.headers, "Destination-Account")

\* C10: with post-as-copy enabled an object POST is rewritten to a PUT on
\* the path of the POST (same version, account, container and object) whose
\* copy source is that container/object, with Content-Length 0 and the
\* post-as-copy flag set; with post-as-copy disabled the POST is passed
\* downstream as it came.
C10_PostAsCopyNormalisation ==
    (Entered /\ OnObject /\ client.method = "POST") =>
        IF object_post_as_copy
        THEN /\ req.method = "PUT"
             /\ req.path = client.path
             /\ unquote_path(req.headers["X-Copy-From"])
                   = <<client.path[3], client.path[4]>>
             /\ req.headers["Content-Length"] = 0
             /\ req.environ.post_as_copy
        ELSE /\ pc \in {"app", "done"}
             /\ subreqs[1] = Event("call", "app", "POST", client.path, 0)
             /\ req.method = "POST"
             /\ req.path = client.path
             /\ req.headers = client.headers
             /\ req.body = client.body
             /\ ~req.environ.post_as_copy

\* An OPTIONS request on an object was answered.
OptionsDone ==
    /\ pc = "done"
    /\ OnObject
    /\ client.method = "OPTIONS"
    /\ response.kind = "returned"

MethodHeaders ==
    {"Allow", "allow", "Access-Control-Allow-Methods",
     "access-control-allow-methods"}

CanonicalName(k) ==
    IF k \in {"Allow", "allow"} THEN "Allow"
    ELSE "Access-Control-Allow-Methods"

CountCOPY(value) == Cardinality({i \in 1..Len(value) : value[i] = "COPY"})

\* C11: the answer to OPTIONS keeps the downstream status; on a successful
\* downstream response Allow and Access-Control-Allow-Methods get COPY
\* appended exactly when they do not hold it yet, COPY is never there
\* twice, and augmenting the answer again changes nothing; every other
\* header, and every header of a response that is not successful, is as
\* downstream sent it.
C11_OptionsIdempotent ==
    OptionsDone =>
        LET down == app_resp.headers
            out == response.headers
            methods == (DOMAIN down) \cap MethodHeaders
        IN  /\ response.status = app_resp.status
            /\ ~is_success(app_resp.status) => out = down
            /\ is_success(app_resp.status) =>
                /\ \A k \in (DOMAIN down) \ methods :
                        Has(out, k) /\ out[k] = down[k]
                /\ \A k \in methods :
                        IF HasCOPY(down[k])
                        THEN Has(out, k) /\ out[k] = down[k]
                        ELSE /\ Has(out, CanonicalName(k))
                             /\ out[CanonicalName(k)]
                                   = Append(down[k], "COPY")
                /\ Cardinality(DOMAIN out) = Cardinality(DOMAIN down)
                /\ \A k \in (DOMAIN out) \cap MethodHeaders :
                        CountCOPY(out[k]) = 1
                /\ options_headers(app_resp.status, out) = out

\* A successful OPTIONS response whose Allow lacked COPY and whose
\* Access-Control-Allow-Methods was present has been augmented.
C11_Witness ==
    /\ OptionsDone
    /\ is_success(app_resp.status)
    /\ Has(app_resp.headers, "Allow")
    /\ ~HasCOPY(app_resp.headers["Allow"])
    /\ Has(app_resp.headers, "Access-Control-Allow-Methods")
    /\ response.headers["Allow"] = <<"GET", "PUT", "COPY">>

-----------------------------------------------------------------------------
(* Properties of the data migration middleware                             *)

\* The request was forwarded and its original call has returned.
DmForwarded ==
    /\ Len(dm_log) >= 2
    /\ dm_log[1].step = "call"
    /\ dm_log[2].step = "return"

\* The steps DataMigrationMiddleware took so far, by name.
DmSteps(step) == {i \in 1..Len(dm_log) : dm_log[i].step = step}

MigrationSteps ==
    {"get_container_info", "remote_driver_resolver", "get_object",
     "get_object_return", "upload", "upload_return", "finalize", "replay",
     "replay_return"}

\* The container was looked up, or a later step of a migration was taken.
Consulted == \E i \in 1..Len(dm_log) : dm_log[i].step \in MigrationSteps

\* The client request is a GET or HEAD on an object.
ObjectRead ==
    /\ dm_client.method \in {"GET", "HEAD"}
    /\ Len(dm_client.path) = 4

\* The original call was answered with 404.
OriginalMiss == DmForwarded /\ dm_log[2].status = HTTP_NOT_FOUND

\* The response has the status and the body of the original downstream
\* response and was started once.
OriginalStatusReturned ==
    /\ dm_response.kind = "returned"
    /\ dm_response.status = dm_log[2].status
    /\ dm_response.body = backend_body(dm_req, dm_log[2].status, objects)
    /\ Cardinality(DmSteps("start_response")) = 1

\* C12 as stated: the container and the driver are consulted only for a GET
\* or HEAD on an object whose original call returned 404; every other
\* forwarded request gets the downstream response as it is, and nothing of
\* a migration happens.
C12_CandidacyAsIs ==
    /\ Consulted => (ObjectRead /\ OriginalMiss)
    /\ (dm_pc = "done" /\ DmForwarded /\ ~(ObjectRead /\ OriginalMiss)) =>
        /\ ~Consulted
        /\ OriginalStatusReturned
        /\ dm_response.headers = dm_log[2].headers

\* C12 (amended): the container and the driver are consulted only for a GET
\* or HEAD on an object whose original call returned 404; every other
\* forwarded request gets the status, the body and every header of the
\* downstream response, to which only the client-facing copies of the
\* container's migration system metadata (provider, source, active) are
\* added, and nothing of a migration happens.
C12_Candidacy ==
    /\ Consulted => (ObjectRead /\ OriginalMiss)
    /\ (dm_pc = "done" /\ DmForwarded /\ ~(ObjectRead /\ OriginalMiss)) =>
        LET down == dm_log[2].headers
            out == dm_response.headers
        IN  /\ ~Consulted
            /\ OriginalStatusReturned
            /\ \A k \in DOMAIN down : Has(out, k) /\ out[k] = down[k]
            /\ \A k \in (DOMAIN out) \ (DOMAIN down) :
                    /\ k \in BaseMigrationHeaders
                    /\ Has(down, sysmeta_header(k))
                    /\ out[k] = down[sysmeta_header(k)]

\* A POST on a missing object of a container with an active migration got
\* the 404 of the backend.
C12_Witness ==
    /\ dm_pc = "done"
    /\ DmForwarded
    /\ dm_client.method = "POST"
    /\ Len(dm_client.path) = 4
    /\ OriginalMiss
    /\ migration_active(container_md)
    /\ dm_response.status = HTTP_NOT_FOUND

\* The driver was resolved or invoked, or an upload was sent.
DriverUsed ==
    \E i \in 1..Len(dm_log) :
        dm_log[i].step \in MigrationSteps \ {"get_container_info"}

\* The container has no migration-active entry, or one that is not true.
MigrationInactive ==
    \/ ~Has(container_md, "migration-active")
    \/ ~config_true_value(container_md["migration-active"])

\* C13: a GET or HEAD on an object that missed, in a container without a
\* migration-active entry or with one that is not true, is answered with
\* the 404 of the backend and its headers, without X-Migration-Status;
\* no driver is resolved or invoked and no upload is sent.
C13_InactiveContainer ==
    (dm_pc = "done" /\ ObjectRead /\ OriginalMiss /\ MigrationInactive) =>
        /\ OriginalStatusReturned
        /\ dm_response.status = HTTP_NOT_FOUND
        /\ dm_response.headers = dm_log[2].headers
        /\ ~Has(dm_response.headers, "X-Migration-Status")
        /\ ~DriverUsed
        /\ create_obj_req = NoUpload
        /\ remote_driver = NoDriver

\* A GET or HEAD missed in a container whose migration-active entry is
\* False, after the container was looked up.
C13_Witness ==
    /\ dm_pc = "done"
    /\ ObjectRead
    /\ OriginalMiss
    /\ Has(container_md, "migration-active")
    /\ container_md["migration-active"] = "False"
    /\ Has(container_md, "migration-provider")
    /\ DmSteps("get_container_info") # {}
    /\ dm_response.status = HTTP_NOT_FOUND

\* The client request carries a migration setup header.
CarriesSetupHeader ==
    \E h \in BaseMigrationHeaders : Has(dm_client.headers, h)

\* C14: a request that carries X-Container-Migration-Active, -Provider or
\* -Source is never a candidate: when its original call returned 404, even
\* for a GET or HEAD on an object of a container with an active migration,
\* the original response is returned and no driver is resolved or invoked.
C14_SetupRequestNeverCandidate ==
    (DmForwarded /\ OriginalMiss /\ CarriesSetupHeader) =>
        /\ ~DriverUsed
        /\ dm_pc = "done" =>
                /\ OriginalStatusReturned
                /\ dm_response.headers = dm_log[2].headers

\* The response is an error answer of the middleware with the given status
\* and the diagnostic header, started after everything else.
FailureAnswered(status) ==
    /\ dm_response.kind = "returned"
    /\ dm_response.status = status
    /\ Has(dm_response.headers, "X-Migration-Status")
    /\ dm_log[Len(dm_log)].step = "start_response"
    /\ dm_log[Len(dm_log)].status = status

\* The request ended in remote_driver_resolver.
ResolveFailed ==
    /\ dm_pc = "done"
    /\ DmSteps("remote_driver_resolver") # {}
    /\ DmSteps("get_object") = {}

\* The request ended in the driver's get_object or in migrate_object
\* before the upload.
FetchFailed ==
    /\ dm_pc = "done"
    /\ DmSteps("get_object_return") # {}
    /\ DmSteps("upload") = {}

\* The request ended with an upload that the backend did not answer with
\* a 2xx status.
UploadFailed ==
    /\ dm_pc = "done"
    /\ \E i \in DmSteps("upload_return") : ~is_success(dm_log[i].status)

\* The file system driver is the container's provider and has no parent
\* path configured.
ParentPathMissing ==
    /\ lower(Get(container_md, "migration-provider", "")) = "fsystem"
    /\ ~Has(migration_conf["fsystem"].additional_params,
            "driver_fsystem_parent_path")

\* The driver raised its own error, or returned no stream.
DriverError ==
    \/ source_object.outcome = "DataMigrationError"
    \/ source_object.outcome = "value" /\ source_object.body_stream = "None"

\* No exception leaves __call__, and a request that ended in a migration
\* failure is not answered with a 5xx status.
Contained ==
    /\ dm_response.kind # "raised"
    /\ (ResolveFailed \/ FetchFailed \/ UploadFailed) =>
            dm_response.status < 500

\* C15 as stated: a failure of the driver resolution, a driver error during
\* the fetch and an upload that did not succeed are answered with 404 and
\* X-Migration-Status, any other exception with 400 and that header; no
\* failure leaves as an exception or a 5xx.
C15_FailuresContained ==
    /\ Contained
    /\ ResolveFailed => FailureAnswered(HTTP_NOT_FOUND)
    /\ FetchFailed =>
            IF DriverError THEN FailureAnswered(HTTP_NOT_FOUND)
            ELSE FailureAnswered(HTTP_BAD_REQUEST)
    /\ UploadFailed => FailureAnswered(HTTP_NOT_FOUND)

\* C15 (amended): a resolution failure is answered with 404 and
\* X-Migration-Status, except that a file system driver without a
\* configured parent path fails with a plain exception and is answered
\* with 400 and that header; a driver error during the fetch and an upload
\* that did not succeed are answered with 404 and the header, any other
\* exception with 400 and the header; no failure leaves as an exception
\* or a 5xx.
C15_FailuresAnswered ==
    /\ Contained
    /\ ResolveFailed =>
            IF ParentPathMissing THEN FailureAnswered(HTTP_BAD_REQUEST)
            ELSE FailureAnswered(HTTP_NOT_FOUND)
    /\ FetchFailed =>
            IF DriverError THEN FailureAnswered(HTTP_NOT_FOUND)
            ELSE FailureAnswered(HTTP_BAD_REQUEST)
    /\ UploadFailed => FailureAnswered(HTTP_NOT_FOUND)

\* The driver returned a stream without a timestamp, and the exception of
\* upload_object was answered with 400.
C15_Witness ==
    /\ FetchFailed
    /\ source_object.outcome = "value"
    /\ source_object.body_stream # "None"
    /\ source_object.timestamp = NoTimestamp
    /\ FailureAnswered(HTTP_BAD_REQUEST)

\* The response is the one the replay of the original request got.
ReplayReturned ==
    /\ DmSteps("replay_return") # {}
    /\ LET i == CHOOSE j \in DmSteps("replay_return") : TRUE
       IN  /\ dm_response.kind = "returned"
           /\ dm_response.status = dm_log[i].status
           /\ \A k \in DOMAIN dm_log[i].headers :
                   /\ Has(dm_response.headers, k)
                   /\ dm_response.headers[k] = dm_log[i].headers[k]

\* C16: once the upload returned, the original request is replayed exactly
\* when the upload status is 2xx (204 included), and the response of the
\* replay is what the client gets; an upload status that is not 2xx is a
\* failure without a replay.
C16_ReplayIffUploadSucceeded ==
    \A i \in DmSteps("upload_return") :
        /\ is_success(dm_log[i].status) <=> DmSteps("replay") # {}
        /\ (dm_pc = "done" /\ is_success(dm_log[i].status)) => ReplayReturned
        /\ (dm_pc = "done" /\ ~is_success(dm_log[i].status)) =>
                FailureAnswered(HTTP_NOT_FOUND)

\* The object of the request is stored in the backend.
Persisted == Has(objects, "o")

\* A step that invokes the driver's get_object.
InvokesGetObject == dm_pc # "get_object" /\ dm_pc' = "get_object"

\* A GET or HEAD was answered while the object was stored, without an
\* upload in the same request.
ServedFromBackend ==
    /\ dm_pc = "done"
    /\ ObjectRead
    /\ Persisted
    /\ DmSteps("upload") = {}

\* C17: once the object is stored in the backend no step invokes the
\* driver's get_object again, whatever requests follow, and every GET or
\* HEAD on it is answered with the backend's response for the stored
\* object without a container lookup or a driver.
C17_Idempotence ==
    /\ [][Persisted => ~InvokesGetObject]_vars
    /\ [](ServedFromBackend =>
            /\ ~Consulted
            /\ OriginalStatusReturned
            /\ dm_response.status = HTTP_OK
            /\ dm_response.headers = dm_log[2].headers
            /\ \A k \in DOMAIN objects["o"].headers :
                    /\ Has(dm_response.headers, k)
                    /\ dm_response.headers[k] = objects["o"].headers[k])

\* A GET on an object that an earlier request migrated was answered from
\* the backend.
C17_Witness ==
    /\ ServedFromBackend
    /\ dm_client.method = "GET"
    /\ Has(objects["o"].headers, "X-Object-Sysmeta-Migration-Import-Owner")
    /\ dm_response.status = HTTP_OK
    /\ dm_response.body = objects["o"].body

\* The object user-metadata header a metadata key of the old storage is
\* expected under: the key itself when it has the object-metadata prefix,
\* else the key with the prefix; header names are compared in their
\* title-cased form.
UserMetaHeader(k) ==
    CASE k = "uid" -> "X-Object-Meta-Uid"
      [] k = "gid" -> "X-Object-Meta-Gid"
      [] k = "user.color" -> "X-Object-Meta-User.Color"
      [] k = "x-object-meta-a" -> "X-Object-Meta-A"

\* The headers carry what the driver returned: content type, size and
\* every metadata entry.
CarriesSourceObject(headers) ==
    /\ headers["Content-Length"] = source_object.read_length
    /\ headers["Content-Type"] = source_object.content_type
    /\ \A k \in DOMAIN source_object.metadata :
            /\ Has(headers, UserMetaHeader(k))
            /\ headers[UserMetaHeader(k)] = source_object.metadata[k]

\* The upload of the current request was built.
Uploading == DmSteps("upload") # {}

\* The replay of a GET found the object.
ReplayFound ==
    /\ dm_pc = "done"
    /\ dm_client.method = "GET"
    /\ \E i \in DmSteps("replay_return") : dm_log[i].status = HTTP_OK

\* C18: the upload is a PUT on the path of the request whose body is the
\* driver's stream and whose headers carry the driver's size, content type
\* and every metadata entry as object user-metadata; the GET replayed after
\* the object was stored returns that stream, content type and metadata.
C18_RoundTrip ==
    /\ Uploading =>
        /\ create_obj_req.method = "PUT"
        /\ create_obj_req.path = dm_client.path
        /\ create_obj_req.body = source_object.body_stream
        /\ source_object.body_stream # "None"
        /\ CarriesSourceObject(create_obj_req.headers)
    /\ ReplayFound =>
        /\ dm_response.status = HTTP_OK
        /\ dm_response.body = source_object.body_stream
        /\ CarriesSourceObject(dm_response.headers)

\* A GET migrated a file with an extended attribute and got it back from
\* the replay.
C18_Witness ==
    /\ ReplayFound
    /\ Has(source_object.metadata, "user.color")
    /\ dm_response.body = "file-bytes"
    /\ dm_response.headers["X-Object-Meta-User.Color"] = "red"

\* A GET migrated an object of the old Swift cluster whose metadata key
\* has the object-metadata prefix already.
C18_WitnessPrefixed ==
    /\ ReplayFound
    /\ Has(source_object.metadata, "x-object-meta-a")
    /\ dm_response.headers["X-Object-Meta-A"] = "1"

\* C19: the response is started at most once per client request, and a
\* start of the response is the last thing that happens: it is never
\* followed by a container lookup, a step of the migration or a second
\* start, so the original 404 of a request that may be migrated is not
\* shown.
C19_ResponseStartedOnce ==
    /\ Cardinality(DmSteps("start_response")) <= 1
    /\ \A i \in DmSteps("start_response") : i = Len(dm_log)

\* The client request is a PUT or POST on a container.
ContainerWrite ==
    /\ dm_client.method \in {"PUT", "POST"}
    /\ Len(dm_client.path) = 3

\* The request names a provider without a non-empty source, or a source
\* without a non-empty provider.
HalfSetup ==
    LET h == dm_client.headers
        provider == "X-Container-Migration-Provider"
        source == "X-Container-Migration-Source"
    IN  \/ Has(h, provider) /\ (~Has(h, source) \/ h[source] = "")
        \/ Has(h, source) /\ (~Has(h, provider) \/ h[provider] = "")

\* C20: a PUT or POST on a container that sets the provider without a
\* non-empty source, or the source without a non-empty provider, is
\* answered with 412 and is not forwarded.
C20_SetupPrecondition ==
    (dm_pc # "idle" /\ ContainerWrite /\ HalfSetup) =>
        /\ dm_pc = "done"
        /\ dm_response.kind = "returned"
        /\ dm_response.status = HTTP_PRECONDITION_FAILED
        /\ DmSteps("call") = {}
        /\ DmSteps("return") = {}
        /\ dm_req = NoDmRequest

\* A container POST with a provider and an empty source was refused.
C20_Witness ==
    /\ dm_pc = "done"
    /\ ContainerWrite
    /\ dm_client.method = "POST"
    /\ Has(dm_client.headers, "X-Container-Migration-Provider")
    /\ Has(dm_client.headers, "X-Container-Migration-Source")
    /\ dm_client.headers["X-Container-Migration-Source"] = ""
    /\ dm_client.headers["X-Container-Migration-Provider"] = "fsystem"
    /\ dm_response.status = HTTP_PRECONDITION_FAILED

\* The migration headers of the three that the client request carries.
SetupHeadersCarried ==
    {k \in BaseMigrationHeaders : Has(dm_client.headers, k)}

\* The request was refused with the given status before any call
\* downstream.
SetupRefused(status) ==
    /\ dm_pc = "done"
    /\ dm_response.kind = "returned"
    /\ dm_response.status = status
    /\ DmSteps("call") = {}
    /\ dm_req = NoDmRequest

\* C21: a PUT or POST on a container that carries some but not all of
\* X-Container-Migration-Active, -Provider and -Source is answered with 412
\* and is not forwarded.
C21_AllThreeTogether ==
    (/\ dm_pc # "idle"
     /\ ContainerWrite
     /\ SetupHeadersCarried # {}
     /\ SetupHeadersCarried # BaseMigrationHeaders) =>
        SetupRefused(HTTP_PRECONDITION_FAILED)

\* The client request carries a provider and a source, both non-empty.
FullSetup ==
    /\ Has(dm_client.headers, "X-Container-Migration-Provider")
    /\ Has(dm_client.headers, "X-Container-Migration-Source")
    /\ ~HalfSetup

\* The provider named by the client request.
SetupProvider == dm_client.headers["X-Container-Migration-Provider"]

\* The provider of the client request is registered, its driver is loaded
\* and the request carries the header of each of its required keys.
SetupComplete ==
    /\ SetupProvider \in DOMAIN migration_conf
    /\ migration_conf[SetupProvider].driver_loaded
    /\ missing_keys(dm_client, migration_conf[SetupProvider].keys) = <<>>

\* A provider that is not registered, or whose driver is not loaded, is
\* refused with 400.
UnusableProviderRefused ==
    (/\ dm_pc # "idle"
     /\ ContainerWrite
     /\ FullSetup
     /\ \/ SetupProvider \notin DOMAIN migration_conf
        \/ ~migration_conf[SetupProvider].driver_loaded) =>
        SetupRefused(HTTP_BAD_REQUEST)

\* The request went downstream and the client has the downstream status.
ForwardedAndReturned ==
    /\ dm_pc # "done" => DmSteps("start_response") = {}
    /\ dm_pc = "done" => DmForwarded /\ OriginalStatusReturned

\* C22 as stated: a container PUT or POST with a provider and a source is
\* refused with 400 when the provider is not registered or its driver is
\* not loaded, and is forwarded, the downstream status returned, when the
\* provider is registered and loaded and all its required headers are
\* there.
C22_SetupValidationAsIs ==
    /\ UnusableProviderRefused
    /\ (dm_pc # "idle" /\ ContainerWrite /\ FullSetup /\ SetupComplete) =>
            ForwardedAndReturned

\* C22: the same, the forwarding half for a provider none of whose
\* additional static parameters is blank in the registry.
C22_SetupValidation ==
    /\ UnusableProviderRefused
    /\ (/\ dm_pc # "idle"
        /\ ContainerWrite
        /\ FullSetup
        /\ SetupComplete
        /\ \A key \in DOMAIN migration_conf[SetupProvider].additional_params :
              ~blank(migration_conf[SetupProvider].additional_params[key]))
          => ForwardedAndReturned

\* A container PUT that names the swift provider with all its keys was
\* refused with 400 where swiftclient is not installed.
C22_Witness ==
    /\ dm_pc = "done"
    /\ ContainerWrite
    /\ FullSetup
    /\ SetupProvider = "swift"
    /\ ~migration_conf["swift"].driver_loaded
    /\ missing_keys(dm_client, migration_conf["swift"].keys) = <<>>
    /\ dm_response.status = HTTP_BAD_REQUEST

\* The resolution has run.
Resolved == DmSteps("remote_driver_resolver") # {} /\ dm_pc # "idle"

\* The registry entry the resolver looks up for the container: the one
\* under the lower-cased migration-provider.
ResolvedName == lower(Get(container_md, "migration-provider", ""))

\* The resolution failed with a DataMigrationError and constructed no
\* driver.
ResolutionFailed ==
    /\ dm_pc = "done"
    /\ remote_driver = NoDriver
    /\ dm_response.kind = "returned"
    /\ dm_response.status = HTTP_NOT_FOUND
    /\ Has(dm_response.headers, "X-Migration-Status")
    /\ DmSteps("get_object") = {}

\* C23: when the provider of the container is not registered, or is
\* registered with a driver that is not loaded, the resolution fails with a
\* DataMigrationError and constructs no driver; a provider whose driver is
\* not loaded is in the registry all the same.
C23_UnusableProviderFails ==
    /\ "swift" \in DOMAIN migration_conf
    /\ (/\ Resolved
        /\ \/ ResolvedName \notin DOMAIN migration_conf
           \/ ~migration_conf[ResolvedName].driver_loaded)
          => ResolutionFailed

\* The resolution for a container of the swift provider failed where
\* swiftclient is not installed.
C23_Witness ==
    /\ Resolved
    /\ ResolvedName = "swift"
    /\ ~migration_conf["swift"].driver_loaded
    /\ ResolutionFailed
    /\ dm_response.headers["X-Migration-Status"] =
          "Failed to retrieve remote driver"

\* The required keys of the resolved provider that the container metadata
\* has no entry for.
AbsentKeys ==
    IF ResolvedName \in DOMAIN migration_conf
    THEN {i \in 1..Len(migration_conf[ResolvedName].keys) :
            ~Has(container_md,
                 metadata_key(migration_conf[ResolvedName].keys[i]))}
    ELSE {}

\* C24: when the container metadata has no migration-<key> entry for a
\* required key of the provider, the resolution fails with a migration
\* error and constructs no driver.
C24_AbsentKeyFails ==
    (Resolved /\ AbsentKeys # {}) => ResolutionFailed

\* The driver that the class of the resolved provider constructs from the
\* migration-source of the container as it is, the migration-<key> value of
\* each required key and the additional parameters of the registry.
DriverFromMetadata ==
    LET entry == migration_conf[ResolvedName]
        keys == {entry.keys[i] : i \in 1..Len(entry.keys)}
        add == entry.additional_params
        params == [k \in keys \cup DOMAIN add |->
                      IF k \in DOMAIN add THEN add[k]
                      ELSE Get(container_md, metadata_key(k), "")]
        data_source == Get(container_md, "migration-source", "")
    IN  IF entry.the_class = "FileSystemAccessDriver"
        THEN FileSystemAccessDriver(data_source, params).value
        ELSE SwiftAccessDriver(data_source, params).value

\* C25: when the resolution succeeds, the driver is the one constructed
\* with the migration-source value of the container as its data source and
\* with the migration-<key> value of each required key, plus every
\* additional static parameter of the registry, as its parameters.
C25_DriverArguments ==
    (Resolved /\ dm_pc = "get_object") =>
        remote_driver = DriverFromMetadata

\* The request of the thread has been through its handler.
Dispatched(t) == threads[t].pc = "dispatched"

\* What __call__ makes of the request of the thread when it is the only
\* one in flight.
Alone(t) == call(threads[t].client, path_fields(threads[t].client),
                 object_post_as_copy)

\* C26: with several requests in flight on one copy middleware, in any
\* interleaving, the source path of each copy and the path it writes to
\* are those that follow from its own path and headers.
C26_RequestLocal ==
    \A t \in 1..MaxThreads :
        Dispatched(t) =>
            /\ threads[t].source_path = Alone(t).source_path
            /\ threads[t].req.path = Alone(t).req.path

\* The reading of the clock that migrate_object took for the upload.
UploadTime ==
    create_obj_req.headers["X-Object-Sysmeta-Migration-Import-Time"]

\* C27: the X-Timestamp of the upload PUT is the earlier of the current
\* time and the timestamp the driver reported for the source object, so it
\* is later than neither.
C27_UploadTimestamp ==
    Uploading =>
        LET stamp == create_obj_req.headers["X-Timestamp"]
        IN  /\ stamp <= UploadTime
            /\ stamp <= source_object.timestamp
            /\ stamp \in {UploadTime, source_object.timestamp}

\* An upload of a source object whose timestamp is later than the current
\* time carries the current time.
C27_Witness ==
    /\ Uploading
    /\ source_object.timestamp > UploadTime
    /\ create_obj_req.headers["X-Timestamp"] = UploadTime

\* get_object returned, without raising, a tuple whose stream is None.
NoneStreamReturned ==
    /\ DmSteps("get_object_return") # {}
    /\ source_object.outcome = "value"
    /\ source_object.body_stream = "None"

\* C28: when get_object returns None for the stream, the fetch has
\* failed: no upload PUT is sent, nothing is replayed, and the client
\* receives 404.
C28_NoneStream ==
    NoneStreamReturned =>
        /\ DmSteps("upload") = {}
        /\ DmSteps("replay") = {}
        /\ dm_pc = "done"
        /\ FailureAnswered(HTTP_NOT_FOUND)

\* A GET of a missing object whose source is a directory was answered with
\* 404.
C28_Witness ==
    /\ NoneStreamReturned
    /\ remote_driver.the_class = "FileSystemAccessDriver"
    /\ dm_client.method = "GET"
    /\ dm_response.status = HTTP_NOT_FOUND
    /\ dm_response.headers["X-Migration-Status"] =
          "Failed to retrieve object for migration"

\* The replay was answered with 404 and the request is done.
ReplayMissed ==
    /\ dm_pc = "done"
    /\ \E i \in DmSteps("replay_return") :
          dm_log[i].status = HTTP_NOT_FOUND

\* C29: for one client request the driver is resolved, get_object is
\* called, the upload PUT is sent and the request is replayed at most once
\* each; the replay is not migrated again, so a replay answered with 404 is
\* returned as it is.
C29_StepsAtMostOnce ==
    /\ \A step \in {"get_container_info", "remote_driver_resolver",
                    "get_object", "upload", "finalize", "replay"} :
          Cardinality(DmSteps(step)) <= 1
    /\ ReplayMissed =>
          /\ dm_response.kind = "returned"
          /\ dm_response.status = HTTP_NOT_FOUND
          /\ ~Has(dm_response.headers, "X-Migration-Status")
          /\ \E i \in DmSteps("replay_return") :
                dm_response.headers = handle_original_call(dm_log[i].headers)

\* An upload that was accepted but not stored was followed by one replay,
\* which was answered with 404.
C29_Witness ==
    /\ ReplayMissed
    /\ Cardinality(DmSteps("upload")) = 1
    /\ Cardinality(DmSteps("replay")) = 1
    /\ \E i \in DmSteps("upload_return") : dm_log[i].status = HTTP_ACCEPTED
    /\ dm_response.status = HTTP_NOT_FOUND

\* C30: the Content-Type of the sink PUT is the one the client supplied
\* when the client supplied one that is not empty, and the one of the
\* source response otherwise.
C30_ContentTypePrecedence ==
    SinkBuilt =>
        /\ Has(sink_req.headers, "Content-Type")
        /\ sink_req.headers["Content-Type"] =
              IF /\ Has(client.headers, "Content-Type")
                 /\ client.headers["Content-Type"] # ""
              THEN client.headers["Content-Type"]
              ELSE source_resp.headers["Content-Type"]

\* A copy whose client sent an empty Content-Type was written with the
\* content type of the source.
C30_Witness ==
    /\ SinkBuilt
    /\ Has(client.headers, "Content-Type")
    /\ client.headers["Content-Type"] = ""
    /\ sink_req.headers["Content-Type"] = "text/source"

\* A copy whose client sent a Content-Type was written with it.
C30_WitnessClient ==
    /\ SinkBuilt
    /\ Has(client.headers, "Content-Type")
    /\ sink_req.headers["Content-Type"] = "text/client"

\* C31: the sink PUT of a copy, whichever way its metadata was merged,
\* carries neither X-Copy-From nor X-Copy-From-Account, and its content
\* length and etag are those of the source response.
C31_SinkHeaders ==
    SinkBuilt =>
        /\ ~Has(sink_req.headers, "X-Copy-From")
        /\ ~Has(sink_req.headers, "X-Copy-From-Account")
        /\ sink_req.headers["Content-Length"] = source_resp.content_length
        /\ Has(sink_req.headers, "Etag")
        /\ sink_req.headers["Etag"] = source_resp.headers["Etag"]
        /\ \A i \in Events("call", "put") :
              subreqs[i].path = sink_req.path

\* The sink PUT has returned and the client has its response.
PutReturned == pc = "done" /\ Events("return", "put") # {}

ProvenanceHeaders ==
    {"X-Copied-From", "X-Copied-From-Account", "X-Copied-From-Last-Modified"}

\* C32: the provenance headers (X-Copied-From, X-Copied-From-Account,
\* X-Copied-From-Last-Modified when the source has a Last-Modified, and the
\* object metadata of the sink PUT) are appended to the response of the
\* client when the sink PUT was answered with a 2xx status, and only then:
\* otherwise the response of the backend is returned with none of them.
C32_ProvenanceOnSuccess ==
    PutReturned =>
        IF PutStatus >= 200 /\ PutStatus <= 299
        THEN /\ {"X-Copied-From", "X-Copied-From-Account"}
                    \subseteq DOMAIN response.added
             /\ Has(source_resp.headers, "Last-Modified") =>
                   /\ Has(response.added, "X-Copied-From-Last-Modified")
                   /\ response.added["X-Copied-From-Last-Modified"] =
                         source_resp.headers["Last-Modified"]
             /\ \A k \in MetaKeys \cap DOMAIN sink_req.headers :
                   /\ Has(response.added, k)
                   /\ response.added[k] = sink_req.headers[k]
        ELSE /\ response.added = EmptyDict
             /\ response.status = PutStatus
             /\ response.headers = app_resp.headers
             /\ DOMAIN response.headers
                    \cap (ProvenanceHeaders \cup MetaKeys) = {}

\* A copy whose sink PUT was answered with 404 was returned without
\* provenance headers.
C32_Witness ==
    /\ PutReturned
    /\ PutStatus = 404
    /\ resp_headers # EmptyDict
    /\ response.added = EmptyDict
    /\ response.status = 404

\* A copy whose sink PUT was answered with 201 was returned with them.
C32_WitnessSuccess ==
    /\ PutReturned
    /\ PutStatus = HTTP_CREATED
    /\ Has(response.added, "X-Copied-From-Last-Modified")
    /\ Has(response.added, "X-Object-Meta-A")

\* C33: the source fetch of a copy goes to the resolved source path, asks
\* for the newest replica and does not carry the storage policy index of
\* the destination request; the request of the client keeps its own
\* headers: its policy index stays, and it gets no X-Newest.
C33_SourceFetch ==
    Copying =>
        /\ Events("call", "fetch") # {}
        /\ \A i \in Events("call", "fetch") :
              /\ subreqs[i].path = source_path
              /\ subreqs[i].method = "GET"
        /\ Has(source_req.headers, "X-Newest")
        /\ source_req.headers["X-Newest"] = "true"
        /\ ~Has(source_req.headers, "X-Backend-Storage-Policy-Index")
        /\ ~Has(req.headers, "X-Newest")
        /\ Has(req.headers, "X-Backend-Storage-Policy-Index")
              <=> Has(client.headers, "X-Backend-Storage-Policy-Index")
        /\ req.method = "PUT"

\* A copy to a destination with a storage policy index fetched its source
\* without it, and the index is still on the request.
C33_Witness ==
    /\ Copying
    /\ Has(client.headers, "X-Backend-Storage-Policy-Index")
    /\ Has(req.headers, "X-Backend-Storage-Policy-Index")
    /\ ~Has(source_req.headers, "X-Backend-Storage-Policy-Index")
    /\ source_path = <<"v1", "a", "c3", "o p">>
    /\ Events("call", "fetch") # {}

\* The provider of the client request is registered and its driver is
\* loaded.
SetupProviderUsable ==
    /\ SetupProvider \in DOMAIN migration_conf
    /\ migration_conf[SetupProvider].driver_loaded

\* A required key of the provider has no header on the client request.
KeyHeaderAbsent ==
    \E i \in 1..Len(migration_conf[SetupProvider].keys) :
        ~Has(dm_client.headers,
             migration_header(migration_conf[SetupProvider].keys[i]))

\* An additional static parameter of the provider is empty in the registry.
EmptyParameter ==
    \E key \in DOMAIN migration_conf[SetupProvider].additional_params :
        migration_conf[SetupProvider].additional_params[key] = ""

\* C34: a PUT or POST on a container with a source and a registered, loaded
\* provider is answered with 400 and is not forwarded when a required key
\* of the provider has no X-Container-Migration-<Key> header, or when an
\* additional static parameter of the provider is empty in the registry.
C34_SetupParameters ==
    (/\ dm_pc # "idle"
     /\ ContainerWrite
     /\ FullSetup
     /\ SetupProviderUsable
     /\ KeyHeaderAbsent \/ EmptyParameter) =>
        SetupRefused(HTTP_BAD_REQUEST)

\* A setup for the file system provider was refused with 400 where
\* driver_fsystem_parent_path is configured empty.
C34_Witness ==
    /\ dm_pc = "done"
    /\ ContainerWrite
    /\ FullSetup
    /\ SetupProvider = "fsystem"
    /\ migration_conf["fsystem"].additional_params
          = ("driver_fsystem_parent_path" :> "")
    /\ dm_response.status = HTTP_BAD_REQUEST

\* A setup for the swift provider without X-Container-Migration-Key was
\* refused with 400 where swiftclient is installed.
C34_WitnessKey ==
    /\ dm_pc = "done"
    /\ ContainerWrite
    /\ FullSetup
    /\ SetupProvider = "swift"
    /\ migration_conf["swift"].driver_loaded
    /\ Has(dm_client.headers, "X-Container-Migration-User")
    /\ ~Has(dm_client.headers, "X-Container-Migration-Key")
    /\ dm_response.status = HTTP_BAD_REQUEST

\* The migration headers the client request carries that belong to a
\* setup: the three mandatory ones and, with a provider and a source, the
\* header of each required key of the provider.
CarriedSetupHeaders ==
    (DOMAIN dm_client.headers) \cap
        (BaseMigrationHeaders \cup
            IF FullSetup /\ SetupProvider \in DOMAIN migration_conf
            THEN {migration_header(migration_conf[SetupProvider].keys[i]) :
                    i \in 1..Len(migration_conf[SetupProvider].keys)}
            ELSE {})

\* C35: a PUT or POST on a container that passes the validation is
\* forwarded with each migration header it carries repeated, with the same
\* value, as the X-Container-Sysmeta-Migration-* header, and once the
\* backend has accepted it the system metadata of the container, which a
\* later object miss reads, holds that value.
C35_SetupStored ==
    (dm_pc # "idle" /\ ContainerWrite /\ DmSteps("call") # {}) =>
        \A h \in CarriedSetupHeaders :
            /\ Has(dm_req.headers, sysmeta_header(h))
            /\ dm_req.headers[sysmeta_header(h)] = dm_client.headers[h]
            /\ dm_req.headers[h] = dm_client.headers[h]
            /\ (DmForwarded /\ dm_log[2].status >= 200
                    /\ dm_log[2].status <= 299) =>
                  /\ Has(container_md, sysmeta_name(sysmeta_header(h)))
                  /\ container_md[sysmeta_name(sysmeta_header(h))] =
                        dm_client.headers[h]

\* A setup for the swift provider was stored with its source and its three
\* keys.
C35_Witness ==
    /\ dm_pc = "done"
    /\ ContainerWrite
    /\ DmForwarded
    /\ dm_log[2].status = HTTP_CREATED
    /\ FullSetup
    /\ SetupProvider = "swift"
    /\ Cardinality(CarriedSetupHeaders) = 6
    /\ container_md["migration-key"] = "testing"
    /\ container_md["migration-source"] = "dir"


\* filter_factory has built the registry.
Constructed == DmSteps("filter_factory") # {}

\* The entries of the configuration scoped to the provider dr
\* (driver_<dr>_*) other than its _keys and _module.
ScopedParameters(c, dr) ==
    Restrict(c, {key \in DOMAIN c :
                    /\ startswith(key, "driver_" \o dr \o "_")
                    /\ key \notin {"driver_" \o dr \o "_keys",
                                   "driver_" \o dr \o "_module"}})

\* C36: in the registry filter_factory builds, the additional static
\* parameters of each provider are exactly the entries of the
\* configuration scoped to that provider other than its _keys and _module
\* entries; entries of another provider, one whose name starts with this
\* provider's name included, are not among them.
C36_ScopedParameters ==
    Constructed =>
        \A dr \in DOMAIN migration_conf :
            migration_conf[dr].additional_params
                = ScopedParameters(middleware_conf, dr)

\* get_object returned a data stream.
StreamReturned ==
    /\ DmSteps("get_object_return") # {}
    /\ source_object.outcome = "value"
    /\ source_object.body_stream # "None"

\* C37: when get_object returned a data stream, the driver's finalize has
\* been invoked exactly once by the time the response of the client's
\* request is ready, whether the upload succeeded, was refused or raised,
\* and it was invoked before the request was replayed.
C37_FinalizeOnce ==
    (StreamReturned /\ dm_pc = "done") =>
        /\ Cardinality(DmSteps("finalize")) = 1
        /\ \A f \in DmSteps("finalize"), r \in DmSteps("replay") : f < r

\* C38: the request replayed after a successful upload has the method,
\* the path and the headers of the client's GET or HEAD; what upload_object
\* wrote for the upload (the method PUT, the timestamp, the content type
\* and length, the metadata headers) went to a copy of its own and is not
\* in the replay.
C38_ReplayIsOriginal ==
    \A i \in DmSteps("replay") :
        /\ dm_log[i].method = dm_client.method
        /\ dm_log[i].method \in {"GET", "HEAD"}
        /\ dm_log[i].path = dm_client.path
        /\ dm_log[i].headers = dm_client.headers
        /\ create_obj_req.method = "PUT"
        /\ (DOMAIN create_obj_req.headers) \ (DOMAIN dm_client.headers)
              # {}
        /\ dm_req = dm_client

\* A HEAD with a header of its own was replayed after an upload that
\* carries the timestamp and the metadata of the source object.
C38_Witness ==
    /\ DmSteps("replay") # {}
    /\ dm_client.method = "HEAD"
    /\ dm_client.headers # EmptyDict
    /\ Has(create_obj_req.headers, "X-Timestamp")
    /\ source_object.metadata # EmptyDict
    /\ Has(create_obj_req.headers, "Content-Type")
    /\ \A i \in DmSteps("replay") :
          ~Has(dm_log[i].headers, "X-Timestamp")

\* The configured provider names that the value names in some letter
\* case.
ConfiguredAs(value) ==
    {name \in DOMAIN migration_conf : lower(name) = lower(value)}

\* The setup was refused because of the provider it names.
ProviderRefused ==
    /\ SetupRefused(HTTP_BAD_REQUEST)
    /\ dm_response.body = "Invalid provider"

\* C39: the setup and the resolution agree on provider names.  A setup
\* that names a configured provider, in whatever letter case, is not
\* refused for its provider; and the provider a setup stored on the
\* container resolves to the registry entry the setup tested.
C39_ProviderNames ==
    /\ (/\ dm_pc # "idle"
        /\ ContainerWrite
        /\ FullSetup
        /\ ConfiguredAs(SetupProvider) # {}) => ~ProviderRefused
    /\ (Resolved /\ Has(container_md, "migration-provider")) =>
          LET stored == container_md["migration-provider"]
          IN  /\ stored \in DOMAIN migration_conf
              /\ ResolvedName \in DOMAIN migration_conf
              /\ migration_conf[ResolvedName] = migration_conf[stored]
              /\ dm_pc = "get_object" =>
                    remote_driver.the_class = migration_conf[stored].the_class

\* The file system driver was resolved for the container, or its
\* construction was refused.
FileSystemResolved ==
    /\ Resolved
    /\ ResolvedName \in DOMAIN migration_conf
    /\ migration_conf[ResolvedName].the_class = "FileSystemAccessDriver"
    /\ migration_conf[ResolvedName].driver_loaded
    /\ Has(migration_conf[ResolvedName].additional_params,
           "driver_fsystem_parent_path")

\* driver_fsystem_parent_path of the registry.
ConfiguredParentPath ==
    migration_conf[ResolvedName].additional_params[
        "driver_fsystem_parent_path"]

\* The path is empty or contains '..'.
EmptyOrDotted(path) == strip(path) = "" \/ has_dots(path)

\* get_object of the file system driver opened a file.
FileOpened == FileSystemResolved /\ StreamReturned

\* The components of the path of the file get_object opened.
OpenedFile == file_path(remote_driver.data_source, dm_req.path[4])

\* The path lies under the parent: it starts with it and goes down from
\* there.
Under(path, parent) ==
    /\ Len(path) > 1
    /\ path[1] = parent
    /\ \A i \in 2..Len(path) :
          ~has_dots(path[i]) /\ ~startswith(path[i], "/")

\* C40: the file that get_object of the file system driver opens lies
\* under driver_fsystem_parent_path, for every source and object name; a
\* parent path or a source that is empty or contains '..' is refused with
\* a driver error when the driver is constructed.
C40_Containment ==
    /\ FileOpened => Under(OpenedFile, ConfiguredParentPath)
    /\ (/\ FileSystemResolved
        /\ \/ EmptyOrDotted(ConfiguredParentPath)
           \/ EmptyOrDotted(Get(container_md, "migration-source", "")))
          => ResolutionFailed

====
